---- MODULE Spec2Model ----
(***************************************************************************)
(* Contract_IQ: the chatbot responder (frontend/modules/chatbot.py) and    *)
(* the risk / exposure aggregation (frontend/utils.py) as a state machine. *)
(*                                                                         *)
(* State: the analytics bundle handed to the pages (its contracts table),  *)
(* the wall clock, the session's graph context, and the record of the last *)
(* call made (its arguments, what the external completion call did, the    *)
(* steps it performed and what it returned).                               *)
(*                                                                         *)
(* A text is a sequence of fragments (strings); a question, a keyword or a *)
(* counterparty name is also available as its sequence of characters       *)
(* (chars), on which lower() and the substring test `in` are computed.     *)
(***************************************************************************)
EXTENDS Integers, Sequences, FiniteSets, TLC

VARIABLES analytics_data, now, graph_context, last,
          chat_messages, graph_ready, context_file, check_shown, run, event,
          files, cache,
          G, PARTITION, GRAPH_CONTEXT_MEMORY, RAW_COMBINED_TEXT,
          CLUSTER_SUMMARIES, SEARCH_OPTIONS, boot, sessions

\* The chatbot page: the session's chat history and graph_ready flag, the
\* state of graph_context_memory.txt, whether the last run drew the "Check
\* for Graph Context" button, the state of the script run and the widget
\* value that triggered it.
page_vars == <<chat_messages, graph_ready, context_file, check_shown, run, event>>

\* The files utils.py loads the bundle from.
loader_vars == <<files, cache>>

\* The globals of config.py, what the last initialize_globals did, and
\* where each UI session of main.py stands in its click handler.
config_vars == <<G, PARTITION, GRAPH_CONTEXT_MEMORY, RAW_COMBINED_TEXT,
                 CLUSTER_SUMMARIES, SEARCH_OPTIONS, boot, sessions>>

vars == <<analytics_data, now, graph_context, last, page_vars, loader_vars, config_vars>>

-----------------------------------------------------------------------------
(* Bounds of the model.                                                    *)

\* Most rows a loaded contracts table holds.
MaxRows == 4

\* The clock runs from 0 to MaxNow ticks.
MaxNow == 1

\* Ticks of the clock per day: Timestamp.now() carries a time of day, a
\* parsed end_date is a midnight.
TicksPerDay == 2

-----------------------------------------------------------------------------
(* Strings as character sequences.                                         *)

\* The characters of the string literals the model reads.
chars(s) ==
  CASE
     s = "What is the TOTAL Value?" -> <<"W","h","a","t"," ","i","s"," ","t","h","e"," ","T","O","T","A","L"," ","V","a","l","u","e","?">>
  [] s = "top vendors" -> <<"t","o","p"," ","v","e","n","d","o","r","s">>
  [] s = "Expiring in 6 months?" -> <<"E","x","p","i","r","i","n","g"," ","i","n"," ","6"," ","m","o","n","t","h","s","?">>
  [] s = "IBM timeline" -> <<"I","B","M"," ","t","i","m","e","l","i","n","e">>
  [] s = "payment terms" -> <<"p","a","y","m","e","n","t"," ","t","e","r","m","s">>
  [] s = "penalty" -> <<"p","e","n","a","l","t","y">>
  [] s = "Stop" -> <<"S","t","o","p">>
  [] s = "SAP renewal" -> <<"S","A","P"," ","r","e","n","e","w","a","l">>
  [] s = "hello" -> <<"h","e","l","l","o">>
  [] s = "Total value of top vendor" -> <<"T","o","t","a","l"," ","v","a","l","u","e"," ","o","f"," ","t","o","p"," ","v","e","n","d","o","r">>
  [] s = "top vendor expiring in 6 months" -> <<"t","o","p"," ","v","e","n","d","o","r"," ","e","x","p","i","r","i","n","g"," ","i","n"," ","6"," ","m","o","n","t","h","s">>
  [] s = "ibm timeline expiring 6 months" -> <<"i","b","m"," ","t","i","m","e","l","i","n","e"," ","e","x","p","i","r","i","n","g"," ","6"," ","m","o","n","t","h","s">>
  [] s = "IBM timeline payment terms" -> <<"I","B","M"," ","t","i","m","e","l","i","n","e"," ","p","a","y","m","e","n","t"," ","t","e","r","m","s">>
  [] s = "payment terms penalty" -> <<"p","a","y","m","e","n","t"," ","t","e","r","m","s"," ","p","e","n","a","l","t","y">>
  [] s = "vendor" -> <<"v","e","n","d","o","r">>
  [] s = "supplier" -> <<"s","u","p","p","l","i","e","r">>
  [] s = "counterparty" -> <<"c","o","u","n","t","e","r","p","a","r","t","y">>
  [] s = "top" -> <<"t","o","p">>
  [] s = "concentration" -> <<"c","o","n","c","e","n","t","r","a","t","i","o","n">>
  [] s = "expiring" -> <<"e","x","p","i","r","i","n","g">>
  [] s = "renewal" -> <<"r","e","n","e","w","a","l">>
  [] s = "expiry" -> <<"e","x","p","i","r","y">>
  [] s = "timeline" -> <<"t","i","m","e","l","i","n","e">>
  [] s = "6 months" -> <<"6"," ","m","o","n","t","h","s">>
  [] s = "2 years" -> <<"2"," ","y","e","a","r","s">>
  [] s = "payment" -> <<"p","a","y","m","e","n","t">>
  [] s = "terms" -> <<"t","e","r","m","s">>
  [] s = "unfavorable" -> <<"u","n","f","a","v","o","r","a","b","l","e">>
  [] s = "sla" -> <<"s","l","a">>
  [] s = "escalation" -> <<"e","s","c","a","l","a","t","i","o","n">>
  [] s = "risk" -> <<"r","i","s","k">>
  [] s = "IBM" -> <<"I","B","M">>
  [] s = "Microsoft" -> <<"M","i","c","r","o","s","o","f","t">>
  [] s = "Oracle" -> <<"O","r","a","c","l","e">>
  [] s = "SAP" -> <<"S","A","P">>
  [] s = "Salesforce" -> <<"S","a","l","e","s","f","o","r","c","e">>
  [] s = "HCL" -> <<"H","C","L">>
  [] s = "Infosys" -> <<"I","n","f","o","s","y","s">>
  [] s = "Alpha" -> <<"A","l","p","h","a">>
  [] s = "total" -> <<"t","o","t","a","l">>
  [] s = "value" -> <<"v","a","l","u","e">>
  [] s = "ibm" -> <<"i","b","m">>
  [] s = "IBM Corp" -> <<"I","B","M"," ","C","o","r","p">>
  [] s = "Oracle Inc" -> <<"O","r","a","c","l","e"," ","I","n","c">>
  [] s = "SAP SE" -> <<"S","A","P"," ","S","E">>
  [] s = "Acme Ltd" -> <<"A","c","m","e"," ","L","t","d">>
  [] s = "Delta Inc" -> <<"D","e","l","t","a"," ","I","n","c">>
  [] s = "Active" -> <<"A","c","t","i","v","e">>
  [] s = "Expired" -> <<"E","x","p","i","r","e","d">>
  [] s = "Inactive" -> <<"I","n","a","c","t","i","v","e">>

UpperCase == <<"A","B","C","D","E","F","G","H","I","J","K","L","M",
               "N","O","P","Q","R","S","T","U","V","W","X","Y","Z">>

LowerCase == <<"a","b","c","d","e","f","g","h","i","j","k","l","m",
               "n","o","p","q","r","s","t","u","v","w","x","y","z">>

\* str.lower() of one character.
lower_char(c) ==
  IF \E i \in 1..Len(UpperCase) : UpperCase[i] = c
  THEN LowerCase[CHOOSE i \in 1..Len(UpperCase) : UpperCase[i] = c]
  ELSE c

\* str.lower(): a mutant that leaves the text as typed.
lower_identity(s) == s

\* str.lower() of a character sequence.
lower(s) == [i \in 1..Len(s) |-> lower_char(s[i])]

\* str.upper() of a character sequence.
upper(s) ==
  [i \in 1..Len(s) |->
     IF \E k \in 1..Len(LowerCase) : LowerCase[k] = s[i]
     THEN UpperCase[CHOOSE k \in 1..Len(LowerCase) : LowerCase[k] = s[i]]
     ELSE s[i]]

RECURSIVE str_of(_)
\* The string a character sequence spells.
str_of(s) == IF s = <<>> THEN "" ELSE Head(s) \o str_of(Tail(s))

\* Python's `word in text` on character sequences: word is a substring.
str_in(word, text) ==
  \E i \in 1..(Len(text) - Len(word) + 1) :
    SubSeq(text, i, i + Len(word) - 1) = word

Range(s) == {s[i] : i \in 1..Len(s)}

\* The element of a one-element set: binds a computed value to a name.
the(S) == CHOOSE x \in S : TRUE

-----------------------------------------------------------------------------
(* The contracts table.                                                    *)

\* The column schema of the contracts CSV the code reads.
AllColumns == {"contract_id", "counterparty", "total_value_usd",
               "annual_commitment_usd", "start_date", "end_date", "status",
               "payment_terms", "sla_penalty", "escalation", "type"}

\* A missing cell of a text column (pandas reads an empty cell as NaN).
NaN == "NaN"

\* A missing date: pd.to_datetime gives NaT; a date is <<day>>.
NaT == <<>>

\* The rows a contracts file may hold, in file order.  Dates are day numbers.
CsvRows == <<
  [contract_id |-> "C-001", counterparty |-> "IBM Corp",
   total_value_usd |-> 300, annual_commitment_usd |-> 100,
   start_date |-> <<-300>>, end_date |-> <<181>>, status |-> "Active",
   payment_terms |-> "Net 30", sla_penalty |-> "5% credit",
   escalation |-> "None", type |-> "MSA"],
  [contract_id |-> "C-002", counterparty |-> "Oracle Inc",
   total_value_usd |-> 300, annual_commitment_usd |-> 120,
   start_date |-> <<-100>>, end_date |-> <<721>>, status |-> "Active",
   payment_terms |-> "Net 60", sla_penalty |-> "",
   escalation |-> "3% annual", type |-> "SOW"],
  [contract_id |-> "C-003", counterparty |-> "SAP SE",
   total_value_usd |-> 300, annual_commitment_usd |-> 90,
   start_date |-> <<-900>>, end_date |-> <<-400>>, status |-> "Expired",
   payment_terms |-> "Net 90", sla_penalty |-> NaN,
   escalation |-> "None", type |-> "MSA"],
  [contract_id |-> "C-004", counterparty |-> "Acme Ltd",
   total_value_usd |-> 100, annual_commitment_usd |-> 50,
   start_date |-> <<-200>>, end_date |-> NaT, status |-> "Inactive",
   payment_terms |-> "Net 30", sla_penalty |-> "2% credit",
   escalation |-> "None", type |-> "SOW"],
  [contract_id |-> "C-004", counterparty |-> "Delta Inc",
   total_value_usd |-> 200, annual_commitment_usd |-> 80,
   start_date |-> <<-50>>, end_date |-> <<100>>, status |-> "Active",
   payment_terms |-> "Milestone-based", sla_penalty |-> "",
   escalation |-> "5% annual", type |-> "MSA"] >>

\* The columns a malformed file may lack (one at a time).
DroppableColumns == {"contract_id", "total_value_usd", "end_date", "type"}

\* The questions asked.
Questions == {"What is the TOTAL Value?", "top vendors",
              "Expiring in 6 months?", "IBM timeline", "payment terms",
              "penalty", "Stop", "SAP renewal", "hello",
              "Total value of top vendor", "top vendor expiring in 6 months",
              "ibm timeline expiring 6 months", "IBM timeline payment terms",
              "payment terms penalty"}

\* Position of a row in the file.
RowIndex(r) == CHOOSE i \in 1..Len(CsvRows) : CsvRows[i] = r

-----------------------------------------------------------------------------
(* pandas and formatting helpers.                                          *)

\* Thousands grouping of "{:,.0f}": the last three digits, zero padded.
pad3(n) ==
  IF n < 10 THEN "00" \o ToString(n)
  ELSE IF n < 100 THEN "0" \o ToString(n)
  ELSE ToString(n)

RECURSIVE fmt_money(_)
\* f"{n:,.0f}" of a non-negative whole amount.
fmt_money(n) ==
  IF n < 1000 THEN ToString(n)
  ELSE fmt_money(n \div 1000) \o "," \o pad3(n % 1000)

\* A float quotient num/den kept exact; den = 0 is numpy's nan (or inf).
ratio(num, den) == [num |-> num, den |-> den]

\* ratio * 100 > k, as the float comparison decides it (nan compares False).
pct_gt(p, k) == p.den > 0 /\ p.num * 100 > k * p.den

\* f"{p * 100:.1f}": tenths, round half to even.
fmt_pct1(p) ==
  IF p.den = 0 THEN "nan"
  ELSE LET scaled == p.num * 1000
           q == scaled \div p.den
           rem2 == 2 * (scaled % p.den)
           t == IF rem2 > p.den \/ (rem2 = p.den /\ q % 2 = 1) THEN q + 1 ELSE q
       IN ToString(t \div 10) \o "." \o ToString(t % 10)

\* The table taken as it is, duplicated contract_ids included (mutant).
drop_duplicates_keep_none(df) == df

\* df.drop_duplicates(subset=['contract_id'], keep='first').
drop_duplicates(df) ==
  LET keep(i) == \A j \in 1..(i - 1) : df[j].contract_id # df[i].contract_id
      idx == {i \in 1..Len(df) : keep(i)}
      RECURSIVE pick(_)
      pick(i) == IF i > Len(df) THEN <<>>
                 ELSE IF i \in idx THEN <<df[i]>> \o pick(i + 1)
                 ELSE pick(i + 1)
  IN pick(1)

RECURSIVE col_sum(_, _)
\* df[col].sum() of a numeric column.
col_sum(df, col) ==
  IF df = <<>> THEN 0 ELSE Head(df)[col] + col_sum(Tail(df), col)

\* Series.unique(): first occurrences, in order.
unique(s) ==
  LET RECURSIVE go(_)
      go(i) == IF i > Len(s) THEN <<>>
               ELSE IF \E j \in 1..(i - 1) : s[j] = s[i] THEN go(i + 1)
               ELSE <<s[i]>> \o go(i + 1)
  IN go(1)

column(df, col) == [i \in 1..Len(df) |-> df[i][col]]

\* ', '.join(parts) as fragments.
join_comma(parts) ==
  LET RECURSIVE go(_)
      go(i) == IF i > Len(parts) THEN <<>>
               ELSE IF i = 1 THEN <<parts[1]>> \o go(2)
               ELSE <<", ", parts[i]>> \o go(i + 1)
  IN go(1)

\* "\n".join(lines): each line is a sequence of fragments.
join_lines(lines) ==
  LET RECURSIVE go(_)
      go(i) == IF i > Len(lines) THEN <<>>
               ELSE IF i = 1 THEN lines[1] \o go(2)
               ELSE <<"\n">> \o lines[i] \o go(i + 1)
  IN go(1)

\* The first column of `accessed` the table lacks ("" when it has them all):
\* the KeyError a column access raises.
key_error(accessed, columns) ==
  LET bad == {i \in 1..Len(accessed) : accessed[i] \notin columns}
  IN IF bad = {} THEN ""
     ELSE accessed[CHOOSE i \in bad : \A j \in bad : i <= j]

-----------------------------------------------------------------------------
(* Expiry: months_to_expiry = (end_date - Timestamp.now()).dt.days / 30.   *)

DaysPerMonth == 30

SixMonths == 6

TwoYears == 24

\* pd.to_datetime(day) as a clock reading: midnight of that day.
to_datetime(d) == IF d = NaT THEN NaT ELSE <<d[1] * TicksPerDay>>

\* Timedelta.days: whole days, rounded towards minus infinity.
td_days(ticks) == ticks \div TicksPerDay

\* months_to_expiry <= n with the quotient taken as integer division (mutant).
months_leq_floor(end_date, t, n) ==
  /\ to_datetime(end_date) # NaT
  /\ (td_days(to_datetime(end_date)[1] - t) \div DaysPerMonth) <= n

\* months_to_expiry <= n; NaT gives NaN, which compares False.
months_leq(end_date, t, n) ==
  /\ to_datetime(end_date) # NaT
  /\ td_days(to_datetime(end_date)[1] - t) <= n * DaysPerMonth

-----------------------------------------------------------------------------
(* Keyword matching on the lower-cased question.                           *)

VendorWords == <<"vendor", "supplier", "counterparty", "top", "concentration">>

ExpiryWords == <<"expiring", "renewal", "expiry", "timeline", "6 months", "2 years">>

PaymentWords == <<"payment", "terms", "unfavorable">>

RiskWords == <<"penalty", "sla", "escalation", "risk">>

NamedVendors == <<"IBM", "Microsoft", "Oracle", "SAP", "Salesforce", "HCL",
                  "Infosys", "Alpha">>

\* The words generate_simple_csv_response looks for.
SimpleWords == {"total", "value", "vendor", "top", "expiring", "6 months",
                "ibm", "timeline", "payment", "terms", "penalty"}

UnfavorableTerms == {"Net 60", "Net 90", "Milestone-based"}

\* prompt_lower = prompt.lower(), for each question.
prompt_lower == [q \in Questions |-> lower(chars(q))]

\* `word in prompt_lower`, for each question and each word looked for.
word_in_prompt ==
  [q \in Questions |->
     [w \in Range(VendorWords) \cup Range(ExpiryWords) \cup Range(PaymentWords)
            \cup Range(RiskWords) \cup SimpleWords |->
        str_in(chars(w), prompt_lower[q])]]

\* `vendor.lower() in prompt_lower`, for each question and named vendor.
vendor_in_prompt ==
  [q \in Questions |->
     [v \in Range(NamedVendors) |-> str_in(lower(chars(v)), prompt_lower[q])]]

\* any(word in prompt_lower for word in words)
any_word(prompt, words) ==
  \E i \in 1..Len(words) : word_in_prompt[prompt][words[i]]

\* Series.str.contains(vendor, case=False), for each counterparty of the file.
counterparty_contains ==
  [c \in {CsvRows[i].counterparty : i \in 1..Len(CsvRows)} |->
     [v \in Range(NamedVendors) |-> str_in(lower(chars(v)), lower(chars(c)))]]

\* Series.str.contains('Active'), for each status of the file.
status_active ==
  [s \in {CsvRows[i].status : i \in 1..Len(CsvRows)} |->
     str_in(chars("Active"), chars(s))]

-----------------------------------------------------------------------------
(* Aggregations shared by the report sections.                             *)

RECURSIVE sort_desc(_, _)
\* sort_values(ascending=False) of `items` by the parallel `keys`; equal keys
\* keep their order (the sort pandas runs on these sizes is stable).
sort_desc(items, keys) ==
  IF items = <<>> THEN <<>>
  ELSE LET n == Len(items)
           m == CHOOSE i \in 1..n :
                  /\ \A j \in 1..n : keys[j] <= keys[i]
                  /\ \A j \in 1..(i - 1) : keys[j] < keys[i]
           drop(s) == SubSeq(s, 1, m - 1) \o SubSeq(s, m + 1, n)
       IN <<items[m]>> \o sort_desc(drop(items), drop(keys))

\* head(n)
head(s, n) == SubSeq(s, 1, IF Len(s) < n THEN Len(s) ELSE n)

TopN == 5

\* The counterparties of the file in groupby's (sorted) key order.
VendorOrder == <<"Acme Ltd", "Delta Inc", "IBM Corp", "Oracle Inc", "SAP SE">>

\* The rows of one counterparty.
of_vendor(df, v) == SelectSeq(df, LAMBDA r : r.counterparty = v)

\* df.groupby('counterparty')...sum().sort_values('total_value_usd',
\* ascending=False): the counterparties, largest total first.
vendor_analysis(df) ==
  LET groups == SelectSeq(VendorOrder, LAMBDA v : of_vendor(df, v) # <<>>)
      totals == [i \in 1..Len(groups) |-> col_sum(of_vendor(df, groups[i]), "total_value_usd")]
  IN sort_desc(groups, totals)

\* Series.value_counts(): the values by falling count (first seen first).
value_counts(s) ==
  LET vals == SelectSeq(unique(s), LAMBDA x : x # NaN)
      count(x) == Cardinality({i \in 1..Len(s) : s[i] = x})
      counts == [i \in 1..Len(vals) |-> count(vals[i])]
  IN sort_desc([i \in 1..Len(vals) |-> [value |-> vals[i], count |-> counts[i]]], counts)

\* Rounded quotient of "{:,.0f}" (round half to even); nan when den = 0.
fmt_money_div(num, den) ==
  IF den = 0 THEN "nan"
  ELSE LET q == num \div den
           rem2 == 2 * (num % den)
       IN fmt_money(IF rem2 > den \/ (rem2 = den /\ q % 2 = 1) THEN q + 1 ELSE q)

\* df_temp[df_temp['months_to_expiry'] <= n], with Timestamp.now() = t.
expiring(df, t, n) == SelectSeq(df, LAMBDA r : months_leq(r.end_date, t, n))

HighShare == 50

ModerateShare == 30

\* Top vendor's share of the total value (float quotient).
top_vendor_pct(df) ==
  LET va == vendor_analysis(df)
  IN ratio(col_sum(of_vendor(df, va[1]), "total_value_usd"),
           col_sum(df, "total_value_usd"))

-----------------------------------------------------------------------------
(* chatbot.generate_comprehensive_csv_analysis                             *)

\* Rows with an SLA penalty clause / with an escalation clause.
penalty_contracts(df) == SelectSeq(df, LAMBDA r : r.sla_penalty # NaN /\ r.sla_penalty # "")

escalation_contracts(df) == SelectSeq(df, LAMBDA r : r.escalation # NaN /\ r.escalation # "None")

unfavorable(df) == SelectSeq(df, LAMBDA r : r.payment_terms \in UnfavorableTerms)

\* df_clean[df_clean['counterparty'].str.contains(vendor, case=False, na=False)]
vendor_contracts(df, v) == SelectSeq(df, LAMBDA r : counterparty_contains[r.counterparty][v])

\* strftime('%Y-%m') of a date, by its month number since the epoch.
strftime_ym(d) == "M" \o ToString(d[1] \div DaysPerMonth)

\* What the function reads, in the order it reads it: the columns, and the
\* two other reads that raise (iloc[0] of no vendor, strftime of NaT).
analysis_accesses(df, prompt, t) ==
  LET df_clean == drop_duplicates(df)
      one(c, s) == IF c THEN s ELSE <<>>
      named(i) ==
        LET v == NamedVendors[i]
            vc == vendor_contracts(df_clean, v)
        IN one(vendor_in_prompt[prompt][v],
               <<"counterparty">> \o
               one(vc # <<>>,
                   <<"total_value_usd", "annual_commitment_usd", "contract_id",
                     "start_date", "end_date", "status">> \o
                   one(\E k \in 1..Len(vc) : vc[k].start_date = NaT \/ vc[k].end_date = NaT,
                       <<"NaTType does not support strftime">>)))
      RECURSIVE all_named(_)
      all_named(i) == IF i > Len(NamedVendors) THEN <<>> ELSE named(i) \o all_named(i + 1)
  IN <<"contract_id", "total_value_usd", "annual_commitment_usd", "status">>
     \o one(any_word(prompt, VendorWords),
            <<"counterparty", "total_value_usd", "annual_commitment_usd", "contract_id">>
            \o one(df_clean = <<>>, <<"single positional indexer is out-of-bounds">>))
     \o one(any_word(prompt, ExpiryWords),
            <<"end_date", "annual_commitment_usd">>
            \o one(expiring(df_clean, t, SixMonths) # <<>>, <<"counterparty", "contract_id">>))
     \o one(any_word(prompt, PaymentWords),
            <<"payment_terms">>
            \o one(unfavorable(df_clean) # <<>>, <<"annual_commitment_usd", "counterparty">>))
     \o one(any_word(prompt, RiskWords),
            <<"sla_penalty", "escalation", "total_value_usd", "annual_commitment_usd">>
            \o one(penalty_contracts(df_clean) # <<>> \/ escalation_contracts(df_clean) # <<>>,
                   <<"counterparty">>))
     \o all_named(1)
     \o <<"total_value_usd">>

\* === PORTFOLIO OVERVIEW ===, always.
overview_section(df_clean) ==
  LET total_contracts == Len(df_clean)
      total_value == col_sum(df_clean, "total_value_usd")
      total_annual == col_sum(df_clean, "annual_commitment_usd")
      active == SelectSeq(df_clean, LAMBDA r : r.status # NaN /\ status_active[r.status])
  IN << <<"=== PORTFOLIO OVERVIEW ===">>,
        <<"* Total Contracts: ", ToString(total_contracts)>>,
        <<"* Total Portfolio Value: $", fmt_money(total_value)>>,
        <<"* Total Annual Commitments: $", fmt_money(total_annual)>>,
        <<"* Active Contracts: ", ToString(Len(active))>>,
        <<"* Average Contract Value: $", fmt_money_div(total_value, total_contracts)>> >>

\* The concentration lines with both thresholds reported at once (mutant).
concentration_lines_both(df_clean) ==
  LET pct == top_vendor_pct(df_clean)
  IN (IF pct_gt(pct, HighShare)
      THEN << <<"! HIGH CONCENTRATION RISK: Top vendor represents ", fmt_pct1(pct), "% of portfolio">> >>
      ELSE <<>>)
     \o
     (IF pct_gt(pct, ModerateShare)
      THEN << <<"! MODERATE CONCENTRATION RISK: Top vendor represents ", fmt_pct1(pct), "% of portfolio">> >>
      ELSE <<>>)

\* The concentration risk line of the vendor section, if any.
concentration_lines(df_clean) ==
  LET pct == top_vendor_pct(df_clean)
  IN IF pct_gt(pct, HighShare)
     THEN << <<"! HIGH CONCENTRATION RISK: Top vendor represents ", fmt_pct1(pct), "% of portfolio">> >>
     ELSE IF pct_gt(pct, ModerateShare)
     THEN << <<"! MODERATE CONCENTRATION RISK: Top vendor represents ", fmt_pct1(pct), "% of portfolio">> >>
     ELSE <<>>

\* === TOP VENDORS ANALYSIS ===
vendor_section(df_clean) ==
  LET total_value == col_sum(df_clean, "total_value_usd")
      top == head(vendor_analysis(df_clean), TopN)
      line(i) ==
        LET rows == of_vendor(df_clean, top[i])
            value == col_sum(rows, "total_value_usd")
        IN <<"* ", ToString(i), ". ", top[i], ": $", fmt_money(value), " (",
             fmt_pct1(ratio(value, total_value)), "% of portfolio) - ",
             ToString(Len(rows)), " contracts">>
  IN << <<"\n=== TOP VENDORS ANALYSIS ===">> >>
     \o [i \in 1..Len(top) |-> line(i)]
     \o concentration_lines(df_clean)

\* === CONTRACT EXPIRY ANALYSIS ===
expiry_section(df_clean, t) ==
  LET expiring_6m == expiring(df_clean, t, SixMonths)
      expiring_2y == expiring(df_clean, t, TwoYears)
  IN << <<"\n=== CONTRACT EXPIRY ANALYSIS ===">>,
        <<"* Expiring in 6 months: ", ToString(Len(expiring_6m)), " contracts ($",
          fmt_money(col_sum(expiring_6m, "annual_commitment_usd")), " at risk)">>,
        <<"* Expiring in 2 years: ", ToString(Len(expiring_2y)), " contracts ($",
          fmt_money(col_sum(expiring_2y, "annual_commitment_usd")), " at risk)">> >>
     \o (IF expiring_6m # <<>>
         THEN << <<"* Critical Renewals Needed: ">>
                   \o join_comma(unique(column(expiring_6m, "counterparty"))),
                 <<"* Contract IDs Expiring: ">>
                   \o join_comma(unique(column(expiring_6m, "contract_id"))) >>
         ELSE <<>>)

\* === PAYMENT TERMS ANALYSIS ===
payment_section(df_clean) ==
  LET payment_terms == value_counts(column(df_clean, "payment_terms"))
      unf == unfavorable(df_clean)
  IN << <<"\n=== PAYMENT TERMS ANALYSIS ===">> >>
     \o [i \in 1..Len(payment_terms) |->
           <<"* ", payment_terms[i].value, ": ", ToString(payment_terms[i].count), " contracts">>]
     \o (IF unf # <<>>
         THEN << <<"! UNFAVORABLE TERMS RISK: ", ToString(Len(unf)), " contracts ($",
                   fmt_money(col_sum(unf, "annual_commitment_usd")), ")">>,
                 <<"* Vendors with Unfavorable Terms: ">>
                   \o join_comma(unique(column(unf, "counterparty"))) >>
         ELSE <<>>)

\* === RISK ANALYSIS ===
risk_section(df_clean) ==
  LET pen == penalty_contracts(df_clean)
      esc == escalation_contracts(df_clean)
  IN << <<"\n=== RISK ANALYSIS ===">>,
        <<"* SLA Penalty Risk: ", ToString(Len(pen)), " contracts ($",
          fmt_money(col_sum(pen, "total_value_usd")), ")">>,
        <<"* Escalation Risk: ", ToString(Len(esc)), " contracts ($",
          fmt_money(col_sum(esc, "annual_commitment_usd")), ")">> >>
     \o (IF pen # <<>>
         THEN << <<"* Penalty Risk Vendors: ">> \o join_comma(unique(column(pen, "counterparty"))) >>
         ELSE <<>>)
     \o (IF esc # <<>>
         THEN << <<"* Escalation Risk Vendors: ">> \o join_comma(unique(column(esc, "counterparty"))) >>
         ELSE <<>>)

\* The header of a named vendor's section.
named_vendor_header(v) ==
  <<"\n=== ", str_of(upper(chars(v))), " CONTRACTS DETAILED ANALYSIS ===">>

\* The lines of a named vendor's section.
named_vendor_lines(df_clean, v) ==
  LET vc == vendor_contracts(df_clean, v)
      total_value == col_sum(df_clean, "total_value_usd")
      timeline == sort_desc(vc, [i \in 1..Len(vc) |-> 0 - vc[i].start_date[1]])
  IN << named_vendor_header(v),
        <<"* Contract Count: ", ToString(Len(vc))>>,
        <<"* Total Value: $", fmt_money(col_sum(vc, "total_value_usd"))>>,
        <<"* Annual Commitment: $", fmt_money(col_sum(vc, "annual_commitment_usd"))>>,
        <<"* Portfolio Share: ",
          fmt_pct1(ratio(col_sum(vc, "total_value_usd"), total_value)), "%">>,
        <<"* Contract Timeline:">> >>
     \o [i \in 1..Len(timeline) |->
           <<"  - ", timeline[i].contract_id, ": ", strftime_ym(timeline[i].start_date),
             " to ", strftime_ym(timeline[i].end_date), " ($",
             fmt_money(timeline[i].annual_commitment_usd), "/yr) - ",
             timeline[i].status>>]

\* The section written also when the vendor has no contract (mutant: the
\* emptiness test left out).
named_vendor_section_unguarded(df_clean, v) == named_vendor_lines(df_clean, v)

\* === <VENDOR> CONTRACTS DETAILED ANALYSIS ===, when the vendor has contracts.
named_vendor_section(df_clean, v) ==
  IF vendor_contracts(df_clean, v) = <<>> THEN <<>>
  ELSE named_vendor_lines(df_clean, v)

\* === CONTRACT TYPES BREAKDOWN ===
types_section(df_clean) ==
  LET contract_types == value_counts(column(df_clean, "type"))
  IN << <<"\n=== CONTRACT TYPES BREAKDOWN ===">> >>
     \o [i \in 1..Len(contract_types) |->
           <<"* ", contract_types[i].value, ": ", ToString(contract_types[i].count),
             " contracts (", fmt_pct1(ratio(contract_types[i].count, Len(df_clean))), "%)">>]

\* === FINANCIAL SUMMARY ===
summary_section(df_clean) ==
  LET total_value == col_sum(df_clean, "total_value_usd")
      total_annual == col_sum(df_clean, "annual_commitment_usd")
      values == {df_clean[i].total_value_usd : i \in 1..Len(df_clean)}
      lo == IF values = {} THEN "nan"
            ELSE fmt_money(CHOOSE x \in values : \A y \in values : x <= y)
      hi == IF values = {} THEN "nan"
            ELSE fmt_money(CHOOSE x \in values : \A y \in values : y <= x)
  IN << <<"\n=== FINANCIAL SUMMARY ===">>,
        <<"* Total Portfolio Value: $", fmt_money(total_value)>>,
        <<"* Annual Commitments: $", fmt_money(total_annual)>>,
        <<"* Average Annual Commitment: $", fmt_money_div(total_annual, Len(df_clean))>>,
        <<"* Contract Value Range: $", lo, " - $", hi>> >>

\* The lines of the report, in order, when nothing raises.
analysis_lines(df, columns, prompt, t) ==
  LET df_clean == drop_duplicates(df)
      RECURSIVE named(_)
      named(i) ==
        IF i > Len(NamedVendors) THEN <<>>
        ELSE (IF vendor_in_prompt[prompt][NamedVendors[i]]
              THEN named_vendor_section(df_clean, NamedVendors[i]) ELSE <<>>)
             \o named(i + 1)
  IN overview_section(df_clean)
     \o (IF any_word(prompt, VendorWords) THEN vendor_section(df_clean) ELSE <<>>)
     \o (IF any_word(prompt, ExpiryWords) THEN expiry_section(df_clean, t) ELSE <<>>)
     \o (IF any_word(prompt, PaymentWords) THEN payment_section(df_clean) ELSE <<>>)
     \o (IF any_word(prompt, RiskWords) THEN risk_section(df_clean) ELSE <<>>)
     \o named(1)
     \o (IF "type" \in columns THEN types_section(df_clean) ELSE <<>>)
     \o summary_section(df_clean)

\* generate_comprehensive_csv_analysis(df, prompt) at clock t: the report, or
\* the error text when anything the function does raises.
generate_comprehensive_csv_analysis(df, columns, prompt, t) ==
  LET err == key_error(analysis_accesses(df, prompt, t), columns)
  IN IF err # ""
     THEN <<"Error in CSV analysis: ", err>>
     ELSE join_lines(analysis_lines(df, columns, prompt, t))

-----------------------------------------------------------------------------
(* chatbot.build_combined_context, generate_openai_response                *)

\* Fragments made of white space only.
Whitespace == {"", " ", "  ", "\n", "\t"}

\* bool(text and text.strip()): the text has a character that is no space.
non_blank(text) == \E i \in 1..Len(text) : text[i] \notin Whitespace

\* str.strip(): leading and trailing white space removed.
strip(text) ==
  LET solid == {i \in 1..Len(text) : text[i] \notin Whitespace}
  IN IF solid = {} THEN <<>>
     ELSE SubSeq(text, CHOOSE i \in solid : \A j \in solid : i <= j,
                       CHOOSE i \in solid : \A j \in solid : j <= i)

CsvHeader == "PRIMARY DATA SOURCE - CONTRACT CSV ANALYSIS:\n"

GraphHeader == "SECONDARY INSIGHTS - KNOWLEDGE GRAPH CONTEXT:\n"

\* The constant instruction block.
Instructions == "\nANALYSIS INSTRUCTIONS:\n- PRIORITIZE CSV DATA ... - FINANCIAL ACCURACY ...\n"

\* "\n\n".join(parts): each part is a text.
join_parts(parts) ==
  LET RECURSIVE go(_)
      go(i) == IF i > Len(parts) THEN <<>>
               ELSE IF i = 1 THEN parts[1] \o go(2)
               ELSE <<"\n\n">> \o parts[i] \o go(i + 1)
  IN go(1)

\* The parts with the graph context put first (mutant).
build_combined_context_graph_first(graph_ctx, csv_analysis, prompt) ==
  join_parts(
    (IF non_blank(graph_ctx) THEN << <<GraphHeader>> \o graph_ctx >> ELSE <<>>)
    \o (IF non_blank(csv_analysis) THEN << <<CsvHeader>> \o csv_analysis >> ELSE <<>>)
    \o << <<Instructions>> >>)

\* build_combined_context(graph_context, csv_analysis, prompt)
build_combined_context(graph_ctx, csv_analysis, prompt) ==
  join_parts(
    (IF non_blank(csv_analysis) THEN << <<CsvHeader>> \o csv_analysis >> ELSE <<>>)
    \o (IF non_blank(graph_ctx) THEN << <<GraphHeader>> \o graph_ctx >> ELSE <<>>)
    \o << <<Instructions>> >>)

\* What the chat-completion call may do: answer (possibly with white space
\* around the text) or raise.
LlmOutcomes ==
  { [kind |-> "ok", content |-> <<"* Portfolio value: $900">>],
    [kind |-> "ok", content |-> <<" ", "* Portfolio value: $900", "\n", "* Contracts: 3", "\n">>],
    [kind |-> "raise", error |-> "Connection error."] }

\* The completion's text returned as received, without strip() (mutant).
generate_openai_response_verbatim(prompt, context, llm) ==
  IF llm.kind = "ok"
  THEN llm.content
  ELSE <<"Error generating OpenAI response: ", llm.error, ". Please try again.">>

\* generate_openai_response(prompt, context), the call behaving as `llm`.
generate_openai_response(prompt, context, llm) ==
  IF llm.kind = "ok"
  THEN strip(llm.content)
  ELSE <<"Error generating OpenAI response: ", llm.error, ". Please try again.">>

-----------------------------------------------------------------------------
(* chatbot.generate_simple_csv_response                                    *)

\* The raw text of a date cell.
date_cell(d) == IF d = NaT THEN "nan" ELSE "D" \o ToString(d[1])

\* The total-value rule tested after the top-vendor rule (mutant).
rule_total_after_vendor(prompt) ==
  /\ word_in_prompt[prompt]["total"] /\ word_in_prompt[prompt]["value"]
  /\ ~(word_in_prompt[prompt]["vendor"] /\ word_in_prompt[prompt]["top"])

\* Whether each rule's keywords occur in the lower-cased question.
rule_total(prompt) == word_in_prompt[prompt]["total"] /\ word_in_prompt[prompt]["value"]

rule_vendor(prompt) == word_in_prompt[prompt]["vendor"] /\ word_in_prompt[prompt]["top"]

rule_expiring(prompt) == word_in_prompt[prompt]["expiring"] /\ word_in_prompt[prompt]["6 months"]

rule_ibm(prompt) == word_in_prompt[prompt]["ibm"] /\ word_in_prompt[prompt]["timeline"]

rule_payment(prompt) == word_in_prompt[prompt]["payment"] /\ word_in_prompt[prompt]["terms"]

rule_penalty(prompt) == word_in_prompt[prompt]["penalty"]

\* The columns the function reads, in order.
simple_accesses(prompt, df, t) ==
  LET df_clean == drop_duplicates(df)
      rest ==
        IF rule_total(prompt) THEN <<"total_value_usd">>
        ELSE IF rule_vendor(prompt) THEN <<"counterparty", "total_value_usd">>
        ELSE IF rule_expiring(prompt)
          THEN <<"end_date">> \o
               (IF expiring(df_clean, t, SixMonths) # <<>>
                THEN <<"counterparty", "annual_commitment_usd">> ELSE <<>>)
        ELSE IF rule_ibm(prompt)
          THEN <<"counterparty">> \o
               (IF vendor_contracts(df_clean, "IBM") # <<>>
                THEN <<"contract_id", "start_date", "end_date", "annual_commitment_usd">>
                ELSE <<>>)
        ELSE IF rule_payment(prompt)
          THEN <<"payment_terms">> \o
               (IF unfavorable(df_clean) # <<>> THEN <<"annual_commitment_usd">> ELSE <<>>)
        ELSE IF rule_penalty(prompt) THEN <<"sla_penalty", "total_value_usd">>
        ELSE <<>>
  IN <<"contract_id">> \o rest

\* The answer of the total-value rule computed on the table as loaded (mutant).
simple_total_answer_raw(df, df_clean) ==
  <<"Based on contract analysis, your total contract portfolio value is $",
    fmt_money(col_sum(df, "total_value_usd")), " across ", ToString(Len(df)),
    " contracts.">>

\* The answer of the total-value rule.
simple_total_answer(df, df_clean) ==
  <<"Based on contract analysis, your total contract portfolio value is $",
    fmt_money(col_sum(df_clean, "total_value_usd")), " across ", ToString(Len(df_clean)),
    " contracts.">>

\* The answer of the first rule that matches, when nothing raises.
simple_answer(prompt, df, t) ==
  LET df_clean == drop_duplicates(df)
  IN IF rule_total(prompt) THEN simple_total_answer(df, df_clean)
     ELSE IF rule_vendor(prompt)
       THEN LET top == head(vendor_analysis(df_clean), TopN)
                RECURSIVE go(_)
                go(i) == IF i > Len(top) THEN <<>>
                         ELSE <<ToString(i), ". ", top[i], ": $",
                                fmt_money(col_sum(of_vendor(df_clean, top[i]), "total_value_usd")),
                                "\n">> \o go(i + 1)
            IN <<"Top vendors by contract value:\n">> \o go(1)
     ELSE IF rule_expiring(prompt)
       THEN LET ex == expiring(df_clean, t, SixMonths)
            IN IF ex # <<>>
               THEN <<"You have ", ToString(Len(ex)), " contracts expiring in the next 6 months: ">>
                    \o join_comma(unique(column(ex, "counterparty")))
                    \o <<". Total value at risk: $",
                         fmt_money(col_sum(ex, "annual_commitment_usd")), ".">>
               ELSE <<"No contracts are expiring in the next 6 months.">>
     ELSE IF rule_ibm(prompt)
       THEN LET ibm == vendor_contracts(df_clean, "IBM")
                RECURSIVE go(_)
                go(i) == IF i > Len(ibm) THEN <<>>
                         ELSE <<"- ", ibm[i].contract_id, ": ", date_cell(ibm[i].start_date),
                                " to ", date_cell(ibm[i].end_date), " ($",
                                fmt_money(ibm[i].annual_commitment_usd), "/yr)\n">> \o go(i + 1)
            IN IF ibm # <<>> THEN <<"IBM Contract Timeline:\n">> \o go(1)
               ELSE <<"No IBM contracts found in the portfolio.">>
     ELSE IF rule_payment(prompt)
       THEN LET unf == unfavorable(df_clean)
            IN IF unf # <<>>
               THEN <<"Found ", ToString(Len(unf)),
                      " contracts with unfavorable payment terms (Net 60, Net 90, or Milestone-based). Total annual commitment at risk: $",
                      fmt_money(col_sum(unf, "annual_commitment_usd")), ".">>
               ELSE <<"Great news! All your contracts have favorable payment terms.">>
     ELSE IF rule_penalty(prompt)
       THEN LET pen == penalty_contracts(df_clean)
            IN <<"You have ", ToString(Len(pen)), " contracts with SLA penalty clauses, representing $",
                 fmt_money(col_sum(pen, "total_value_usd")), " in total contract value at risk.">>
     ELSE <<"Based on analysis of your ", ToString(Len(df_clean)),
            " contracts, I can provide insights about payment terms, renewals, vendor relationships, SLA requirements, and financial metrics. Please ask a more specific question.">>

\* generate_simple_csv_response(prompt, df) at clock t.
generate_simple_csv_response(prompt, df, columns, t) ==
  LET err == key_error(simple_accesses(prompt, df, t), columns)
  IN IF err # ""
     THEN <<"Error in simple analysis: ", err, ". Please try a different question.">>
     ELSE simple_answer(prompt, df, t)

-----------------------------------------------------------------------------
(* chatbot.generate_ai_response                                            *)

NoDataMessage == <<"No contract data available. Please check your data sources.">>

\* The apology of the outer handler, e being the exception's text.
error_message(e) ==
  <<"I encountered an error while processing your question: ", e,
    ". Please try rephrasing your question or contact support.">>

NoneHasNoEmpty == "'NoneType' object has no attribute 'empty'"

\* Steps 1 to 3 on a table: the analysis, the combined context, the call.
answer_from(csv_analysis, prompt, graph_ctx, llm) ==
  generate_openai_response(prompt, build_combined_context(graph_ctx, csv_analysis, prompt), llm)

AllSteps == <<"generate_comprehensive_csv_analysis", "build_combined_context",
              "generate_openai_response">>

\* The try block with the emptiness test made after the calls (mutant).
ai_try_test_late(prompt, ad, graph_ctx, t, llm) ==
  IF ad.has_csv /\ ad.is_none
  THEN [exc |-> NoneHasNoEmpty, out |-> <<>>, steps |-> <<>>]
  ELSE IF ~ad.has_csv \/ ad.rows = <<>>
  THEN [exc |-> "", out |-> NoDataMessage, steps |-> AllSteps]
  ELSE [exc |-> "",
        out |-> the({answer_from(a, prompt, graph_ctx, llm) :
                       a \in {generate_comprehensive_csv_analysis(ad.rows, ad.columns, prompt, t)}}),
        steps |-> AllSteps]

\* The try block with the completion call made again after a failure (mutant).
ai_try_retry(prompt, ad, graph_ctx, t, llm) ==
  IF ad.has_csv /\ ad.is_none
  THEN [exc |-> NoneHasNoEmpty, out |-> <<>>, steps |-> <<>>]
  ELSE IF ~ad.has_csv \/ ad.rows = <<>>
  THEN [exc |-> "", out |-> NoDataMessage, steps |-> <<>>]
  ELSE [exc |-> "",
        out |-> the({answer_from(a, prompt, graph_ctx, llm) :
                       a \in {generate_comprehensive_csv_analysis(ad.rows, ad.columns, prompt, t)}}),
        steps |-> IF llm.kind = "raise"
                  THEN AllSteps \o <<"generate_openai_response">> ELSE AllSteps]

\* The try block: exc is the text of the exception raised ("" for none), out
\* the value returned, steps the functions called.  A bundle without the key
\* gives an empty DataFrame, a None value has no attribute `empty`.
ai_try(prompt, ad, graph_ctx, t, llm) ==
  IF ad.has_csv /\ ad.is_none
  THEN [exc |-> NoneHasNoEmpty, out |-> <<>>, steps |-> <<>>]
  ELSE IF ~ad.has_csv \/ ad.rows = <<>>
  THEN [exc |-> "", out |-> NoDataMessage, steps |-> <<>>]
  ELSE [exc |-> "",
        out |-> the({answer_from(a, prompt, graph_ctx, llm) :
                       a \in {generate_comprehensive_csv_analysis(ad.rows, ad.columns, prompt, t)}}),
        steps |-> AllSteps]

\* The handler's own try block, e being the text of the exception caught.
ai_fallback(e, prompt, ad, t) ==
  IF ad.has_csv /\ ad.is_none
  THEN [exc |-> NoneHasNoEmpty, out |-> <<>>, steps |-> <<>>]
  ELSE IF ad.has_csv /\ ad.rows # <<>>
  THEN [exc |-> "", out |-> generate_simple_csv_response(prompt, ad.rows, ad.columns, t),
        steps |-> <<"generate_simple_csv_response">>]
  ELSE [exc |-> "", out |-> error_message(e), steps |-> <<>>]

\* The handler without its inner except: what its try block raises leaves
\* the function (mutant).
ai_handler_no_inner_except(body, handler) ==
  [raised |-> handler.exc # "", out |-> handler.out, steps |-> handler.steps]

\* The outer handler, given what the try block (body) and its own try block
\* (handler) did: the inner except turns a second exception into the apology.
ai_handler(body, handler) ==
  IF handler.exc = ""
  THEN [raised |-> FALSE, out |-> handler.out, steps |-> handler.steps]
  ELSE [raised |-> FALSE, out |-> error_message(body.exc), steps |-> handler.steps]

\* What generate_ai_response returns, given what its try block did.
ai_return(body, prompt, ad, t) ==
  IF body.exc = ""
  THEN [raised |-> FALSE, out |-> body.out, steps |-> body.steps]
  ELSE the({ai_handler(body, h) : h \in {ai_fallback(body.exc, prompt, ad, t)}})

\* generate_ai_response(prompt, analytics_data), with the session's graph
\* context, the clock at t and the completion call behaving as llm.
\* raised: an exception leaves the function.
generate_ai_response(prompt, ad, graph_ctx, t, llm) ==
  the({ai_return(body, prompt, ad, t) : body \in {ai_try(prompt, ad, graph_ctx, t, llm)}})

-----------------------------------------------------------------------------
(* utils.generate_risk_assessment, utils.generate_executive_summary        *)

\* The dict {}.
EmptyDict == [k \in {} |-> 0]

\* generate_risk_assessment(df) at clock t.  Nothing is caught here: raised
\* tells that the KeyError of a missing column leaves the function.
generate_risk_assessment(df, columns, t) ==
  LET err == key_error(<<"status", "counterparty", "total_value_usd", "end_date">>, columns)
      va == vendor_analysis(df)
  IN IF df = <<>> THEN [raised |-> FALSE, value |-> EmptyDict]
     ELSE IF err # "" THEN [raised |-> TRUE, value |-> EmptyDict]
     ELSE [raised |-> FALSE,
           value |-> [total_contracts |-> Len(df),
                      active_contracts |->
                        Len(SelectSeq(df, LAMBDA r : r.status # NaN /\ status_active[r.status])),
                      vendor_concentration_risk |->
                        ratio(col_sum(of_vendor(df, va[1]), "total_value_usd"),
                              col_sum(df, "total_value_usd")),
                      expiring_soon |-> Len(expiring(df, t, SixMonths))]]

\* generate_executive_summary(df, insights)
generate_executive_summary(df, columns) ==
  LET err == key_error(<<"total_value_usd", "annual_commitment_usd">>, columns)
  IN IF df = <<>> THEN [raised |-> FALSE, value |-> EmptyDict]
     ELSE IF err # "" THEN [raised |-> TRUE, value |-> EmptyDict]
     ELSE [raised |-> FALSE,
           value |-> [total_contract_value |-> col_sum(df, "total_value_usd"),
                      annual_commitment |-> col_sum(df, "annual_commitment_usd")]]

-----------------------------------------------------------------------------
(* State machine, first part: the environment.                             *)

\* No call is in progress.
Idle == [op |-> "none"]

\* No widget value: a run that no user action triggered.
NoEvent == [kind |-> "none"]

\* A new session before the first run of the chatbot page.
PageAtStart ==
  /\ chat_messages = <<>>
  /\ graph_ready = FALSE
  /\ check_shown = FALSE
  /\ context_file = "absent"
  /\ run = "requested"
  /\ event = NoEvent

\* No contracts file and no insights file on disk, and nothing in the
\* caches of st.cache_data.
FilesAtStart ==
  /\ files = [uploaded |-> [state |-> "absent"], dummy |-> [state |-> "absent"],
              jsonl |-> [state |-> "absent"]]
  /\ cache = [unified |-> [state |-> "miss"], demo |-> [state |-> "miss"],
              uploaded |-> [state |-> "miss"], jsonl |-> [state |-> "miss"],
              bundle |-> [mode \in {"unified", "demo", "live", "other"} |-> [state |-> "miss"]]]

\* Python's None.
NoneValue == [py |-> "None"]

\* The UI sessions served by the one process.
Sessions == {"s1", "s2"}

\* The globals as the import of config.py leaves them.
ConfigAtStart ==
  /\ G = NoneValue
  /\ PARTITION = EmptyDict
  /\ GRAPH_CONTEXT_MEMORY = ""
  /\ RAW_COMBINED_TEXT = ""
  /\ CLUSTER_SUMMARIES = EmptyDict
  /\ SEARCH_OPTIONS = <<>>
  /\ boot = Idle
  /\ sessions = [s \in Sessions |-> [pc |-> "idle"]]

\* utils.load_cfo_analytics_data: the bundle starts without contracts.
\* has_csv: the key "contract_csv" is present; is_none: its value is None.
Init ==
  /\ analytics_data \in
       { [has_csv |-> TRUE, is_none |-> TRUE, columns |-> AllColumns, rows |-> <<>>],
         [has_csv |-> TRUE, is_none |-> FALSE, columns |-> AllColumns, rows |-> <<>>],
         [has_csv |-> FALSE, is_none |-> FALSE, columns |-> AllColumns, rows |-> <<>>] }
  /\ now = 0
  /\ graph_context = <<>>
  /\ last = Idle
  /\ PageAtStart /\ FilesAtStart /\ ConfigAtStart

\* A row is added to the contracts file and the bundle reloaded.
AppendRow(r) ==
  /\ last = Idle
  /\ Len(analytics_data.rows) < MaxRows
  /\ \A i \in 1..Len(analytics_data.rows) :
        RowIndex(analytics_data.rows[i]) < RowIndex(r)
  /\ analytics_data' = [analytics_data EXCEPT !.has_csv = TRUE, !.is_none = FALSE,
                                              !.rows = Append(@, r)]
  /\ UNCHANGED <<now, graph_context, last>>
  /\ UNCHANGED <<page_vars, loader_vars, config_vars>>

\* The contracts file lacks one column of the schema.
DropColumn(c) ==
  /\ last = Idle
  /\ analytics_data.columns = AllColumns
  /\ analytics_data.rows # <<>>
  /\ analytics_data' = [analytics_data EXCEPT !.columns = @ \ {c}]
  /\ UNCHANGED <<now, graph_context, last>>
  /\ UNCHANGED <<page_vars, loader_vars, config_vars>>

\* The wall clock advances.
Tick ==
  /\ last = Idle
  /\ now < MaxNow
  /\ now' = now + 1
  /\ UNCHANGED <<analytics_data, graph_context, last>>
  /\ UNCHANGED <<page_vars, loader_vars, config_vars>>

\* The text of graph_context_memory.txt.
GraphFileText == <<"Cluster 0: IBM Corp governed_by Master Agreement">>

\* create_page reads the context file into the session.
LoadGraphContext ==
  /\ last = Idle
  /\ graph_context = <<>>
  /\ graph_context' = GraphFileText
  /\ UNCHANGED <<analytics_data, now, last>>
  /\ UNCHANGED <<page_vars, loader_vars, config_vars>>

-----------------------------------------------------------------------------
(* State machine, second part: the calls.                                  *)

\* The bundle holds a table (possibly with no rows).
has_table == analytics_data.has_csv /\ ~analytics_data.is_none

\* The chat page answers a question: generate_ai_response(prompt, analytics_data).
AskAI(prompt, llm) ==
  /\ last = Idle
  /\ last' = [op |-> "generate_ai_response", prompt |-> prompt, llm |-> llm,
              result |-> generate_ai_response(prompt, analytics_data, graph_context, now, llm)]
  /\ UNCHANGED <<analytics_data, now, graph_context>>
  /\ UNCHANGED <<page_vars, loader_vars, config_vars>>

\* generate_comprehensive_csv_analysis(df, prompt) on the bundle's table; its
\* call comes after the test for an empty table.
CallAnalysis(prompt) ==
  /\ last = Idle
  /\ has_table
  /\ analytics_data.rows # <<>>
  /\ last' = [op |-> "generate_comprehensive_csv_analysis", prompt |-> prompt,
              result |-> generate_comprehensive_csv_analysis(
                           analytics_data.rows, analytics_data.columns, prompt, now)]
  /\ UNCHANGED <<analytics_data, now, graph_context>>
  /\ UNCHANGED <<page_vars, loader_vars, config_vars>>

\* generate_simple_csv_response(prompt, df) on the bundle's table; its call is
\* under "if not df.empty".
CallSimple(prompt) ==
  /\ last = Idle
  /\ has_table
  /\ analytics_data.rows # <<>>
  /\ last' = [op |-> "generate_simple_csv_response", prompt |-> prompt,
              result |-> generate_simple_csv_response(
                           prompt, analytics_data.rows, analytics_data.columns, now)]
  /\ UNCHANGED <<analytics_data, now, graph_context>>
  /\ UNCHANGED <<page_vars, loader_vars, config_vars>>

\* The texts build_combined_context is given.
GraphTexts == {<<>>, <<" ", "\n">>, GraphFileText}

CsvTexts == {<<>>, <<"  ">>, <<"=== PORTFOLIO OVERVIEW ===", "\n", "* Total Contracts: ", "2">>,
             <<"Error in CSV analysis: ", "contract_id">>}

\* build_combined_context(graph_context, csv_analysis, prompt)
CallBuildContext(graph_ctx, csv_analysis) ==
  /\ last = Idle
  /\ last' = [op |-> "build_combined_context", graph_context |-> graph_ctx,
              csv_analysis |-> csv_analysis,
              result |-> build_combined_context(graph_ctx, csv_analysis, "hello")]
  /\ UNCHANGED <<analytics_data, now, graph_context>>
  /\ UNCHANGED <<page_vars, loader_vars, config_vars>>

\* utils.generate_risk_assessment(df) on the bundle's table.
CallRiskAssessment ==
  /\ last = Idle
  /\ has_table
  /\ last' = [op |-> "generate_risk_assessment",
              result |-> generate_risk_assessment(analytics_data.rows, analytics_data.columns, now)]
  /\ UNCHANGED <<analytics_data, now, graph_context>>
  /\ UNCHANGED <<page_vars, loader_vars, config_vars>>

\* utils.generate_executive_summary(df, insights) on the bundle's table.
CallExecutiveSummary ==
  /\ last = Idle
  /\ has_table
  /\ last' = [op |-> "generate_executive_summary",
              result |-> generate_executive_summary(analytics_data.rows, analytics_data.columns)]
  /\ UNCHANGED <<analytics_data, now, graph_context>>
  /\ UNCHANGED <<page_vars, loader_vars, config_vars>>

\* The run that made the call ends; the page waits for the next event.
Finish ==
  /\ last # Idle
  /\ last' = Idle
  /\ UNCHANGED <<analytics_data, now, graph_context>>
  /\ UNCHANGED <<page_vars, loader_vars, config_vars>>

Next ==
  \/ \E r \in Range(CsvRows) : AppendRow(r)
  \/ \E c \in DroppableColumns : DropColumn(c)
  \/ Tick
  \/ LoadGraphContext
  \/ \E q \in Questions, llm \in LlmOutcomes : AskAI(q, llm)
  \/ \E q \in Questions : CallAnalysis(q)
  \/ \E q \in Questions : CallSimple(q)
  \/ \E g \in GraphTexts, c \in CsvTexts : CallBuildContext(g, c)
  \/ CallRiskAssessment
  \/ CallExecutiveSummary
  \/ Finish

Spec == Init /\ [][Next]_vars

-----------------------------------------------------------------------------
(* chatbot.create_page: one session of the chat page.  A script run is     *)
(* requested (the first load, or st.rerun()), runs from top to bottom with  *)
(* the widget value that triggered it, and either completes or calls       *)
(* st.rerun(), which ends the run and requests the next one.               *)

\* Most messages the chat history holds.
MaxMessages == 3

\* The sample questions offered as buttons.
sample_questions ==
  <<"What are the top vendors by contract value?",
    "Which contracts are expiring in the next 6 months?",
    "What is the timeline of IBM contracts?",
    "What contracts have unfavorable payment terms?",
    "What is our penalty exposure for SLA breaches?",
    "What contracts are expiring in the next 2 years?",
    "Which vendors have the highest concentration risk?",
    "What are the compliance requirements across all contracts?">>

\* How many of the sample buttons a user of the model clicks.
MaxSample == 2

\* {"role": role, "content": content}
message(role, content) == [role |-> role, content |-> content]

\* Lines 81-89 reading the file on every run (mutant).
auto_load_every_run(file, ready, graph_ctx) ==
  IF file \in {"readable", "rewritten"}
  THEN [graph_ready |-> TRUE, graph_context |-> (IF file = "rewritten"
                                                  THEN <<"Cluster 0: Oracle Inc governed_by License">>
                                                  ELSE GraphFileText)]
  ELSE [graph_ready |-> ready, graph_context |-> graph_ctx]

\* Lines 81-89: the context file is read once; a failing read is passed
\* over.  The file holds the text the pipeline wrote, or ("rewritten") the
\* text a later run of the pipeline replaced it with.
auto_load(file, ready, graph_ctx) ==
  IF file # "absent" /\ ~ready
  THEN IF file # "unreadable"
       THEN [graph_ready |-> TRUE, graph_context |-> (IF file = "rewritten"
                                                  THEN <<"Cluster 0: Oracle Inc governed_by License">>
                                                  ELSE GraphFileText)]
       ELSE [graph_ready |-> FALSE, graph_context |-> graph_ctx]
  ELSE [graph_ready |-> ready, graph_context |-> graph_ctx]

\* build_knowledge_graph(analytics_data): the session state it leaves and
\* the value it returns.  No code of the page calls it.
build_knowledge_graph(file, ready, graph_ctx) ==
  IF file \in {"readable", "rewritten"}
    THEN [graph_ready |-> ready, graph_context |-> (IF file = "rewritten"
                                                  THEN <<"Cluster 0: Oracle Inc governed_by License">>
                                                  ELSE GraphFileText), value |-> TRUE]
  ELSE [graph_ready |-> ready, graph_context |-> graph_ctx, value |-> FALSE]

\* Lines 100-108: success, or st.rerun() while the file exists and the
\* graph is not ready, or the warning with its button.
status_panel(file, ready, ev) ==
  IF file # "absent" /\ ready THEN [rerun |-> FALSE, check_shown |-> FALSE]
  ELSE IF file # "absent" THEN [rerun |-> TRUE, check_shown |-> FALSE]
  ELSE [rerun |-> ev.kind = "check", check_shown |-> TRUE]

\* Lines 137-155: the question and its answer, or the error message of
\* lines 152-155, are appended.
chat_input(messages, ev, ad, graph_ctx, t, llm) ==
  LET answer == generate_ai_response(ev.prompt, ad, graph_ctx, t, llm)
  IN messages \o
     << message("user", <<ev.prompt>>),
        message("assistant", IF answer.raised
                               THEN <<"I encountered an error: ", "error",
                                      ". Please try rephrasing your question.">>
                               ELSE answer.out) >>

\* create_page(analytics_data) run with the widget value ev: the session
\* state it leaves and whether it ended in st.rerun().
create_page(messages, ready, graph_ctx, file, ev, ad, t, llm) ==
  LET loaded == auto_load(file, ready, graph_ctx)
      panel == status_panel(file, loaded.graph_ready, ev)
      base == [chat_messages |-> messages, graph_ready |-> loaded.graph_ready,
               graph_context |-> loaded.graph_context,
               check_shown |-> panel.check_shown, rerun |-> panel.rerun]
  IN IF panel.rerun THEN base
     ELSE IF ev.kind = "chat"
       THEN [base EXCEPT !.chat_messages =
               chat_input(messages, ev, ad, loaded.graph_context, t, llm)]
     ELSE IF ev.kind = "clear"
       THEN [base EXCEPT !.chat_messages = <<>>, !.rerun = TRUE]
     ELSE IF ev.kind = "sample"
       THEN [base EXCEPT !.chat_messages = Append(messages, message("user", <<ev.question>>)),
                         !.rerun = TRUE]
     ELSE base

\* A new session opens the page with some bundle and some state of the file.
InitPage ==
  /\ analytics_data \in
       { [has_csv |-> TRUE, is_none |-> TRUE, columns |-> AllColumns, rows |-> <<>>],
         [has_csv |-> TRUE, is_none |-> FALSE, columns |-> AllColumns, rows |-> <<CsvRows[1]>>] }
  /\ now = 0
  /\ graph_context = <<>>
  /\ last = Idle
  /\ chat_messages = <<>>
  /\ graph_ready = FALSE
  /\ check_shown = FALSE
  /\ context_file \in {"absent", "readable", "unreadable"}
  /\ run = "requested"
  /\ event = NoEvent
  /\ FilesAtStart /\ ConfigAtStart

\* The pipeline writes or removes graph_context_memory.txt between runs.
ContextFileChanges(s) ==
  /\ run # "running"
  /\ context_file # s
  /\ context_file' = s
  /\ UNCHANGED <<chat_messages, graph_ready, check_shown, run, event, graph_context>>
  /\ UNCHANGED <<analytics_data, now, last, loader_vars, config_vars>>

\* A widget of the page drawn by the last complete run is used: the script
\* runs again with that widget's value.
Trigger(ev) ==
  /\ run = "done"
  /\ run' = "running"
  /\ event' = ev
  /\ UNCHANGED <<chat_messages, graph_ready, check_shown, context_file, graph_context>>
  /\ UNCHANGED <<analytics_data, now, last, loader_vars, config_vars>>

SubmitChat(q) ==
  /\ Len(chat_messages) + 2 <= MaxMessages
  /\ Trigger([kind |-> "chat", prompt |-> q])

ClickClear ==
  /\ run = "done"
  /\ Trigger([kind |-> "clear"])

ClickSample(i) ==
  /\ Len(chat_messages) + 1 <= MaxMessages
  /\ Trigger([kind |-> "sample", question |-> sample_questions[i]])

ClickCheck ==
  /\ check_shown
  /\ Trigger([kind |-> "check"])

\* The script runner starts the run st.rerun() (or the first load) asked for.
StartRerun ==
  /\ run = "requested"
  /\ run' = "running"
  /\ event' = NoEvent
  /\ UNCHANGED <<chat_messages, graph_ready, check_shown, context_file, graph_context>>
  /\ UNCHANGED <<analytics_data, now, last, loader_vars, config_vars>>

\* The script runs create_page from top to bottom.
RunPage(llm) ==
  /\ run = "running"
  /\ \E r \in {create_page(chat_messages, graph_ready, graph_context, context_file,
                           event, analytics_data, now, llm)} :
       /\ chat_messages' = r.chat_messages
       /\ graph_ready' = r.graph_ready
       /\ graph_context' = r.graph_context
       /\ check_shown' = r.check_shown
       /\ run' = IF r.rerun THEN "requested" ELSE "done"
  /\ UNCHANGED <<context_file, event>>
  /\ UNCHANGED <<analytics_data, now, last, loader_vars, config_vars>>

NextPage ==
  \/ \E s \in {"absent", "readable", "rewritten", "unreadable"} : ContextFileChanges(s)
  \/ \E q \in {"penalty", "hello"} : SubmitChat(q)
  \/ ClickClear
  \/ \E i \in 1..MaxSample : ClickSample(i)
  \/ ClickCheck
  \/ StartRerun
  \/ \E llm \in LlmOutcomes : RunPage(llm)

\* A requested run is started and a started run is carried out; nothing
\* obliges the user or the pipeline to act.  RunPage is enabled exactly when
\* run = "running" and every RunPage step leaves that value, so weak
\* fairness of RunPage is the recurrence of run # "running".
SpecPage ==
  /\ InitPage /\ [][NextPage]_vars
  /\ WF_vars(StartRerun) /\ []<>(run # "running")

-----------------------------------------------------------------------------
(* utils.py loaders and executive.create_page: the files on disk, the      *)
(* bundle load_cfo_analytics_data builds from them, and the pages fed with *)
(* it.                                                                     *)

\* The contents a contracts file takes (state: os.path.exists is False,
\* reading raises, or pd.read_csv returns the table): missing, unreadable, a header with
\* no rows, one contract, one contract in a file without the status column.
CsvFiles ==
  { [state |-> "absent"], [state |-> "unparsable"],
    [state |-> "ok", columns |-> AllColumns, rows |-> <<>>],
    [state |-> "ok", columns |-> AllColumns, rows |-> <<CsvRows[1]>>],
    [state |-> "ok", columns |-> AllColumns \ {"status"}, rows |-> <<CsvRows[1]>>] }

\* The contents the insights file takes: missing, unreadable, blank lines
\* only, two insights, and an insight without the dimension field.
JsonlFiles ==
  { [state |-> "absent"], [state |-> "unparsable"],
    [state |-> "ok", insights |-> <<>>],
    [state |-> "ok", insights |-> << [dimension |-> "Risk", question |-> "q1"],
                                     [dimension |-> "Cost", question |-> "q2"],
                                     [dimension |-> "Risk", question |-> "q3"] >>],
    [state |-> "ok", insights |-> << [dimension |-> "Risk", question |-> "q1"],
                                     [question |-> "q4"] >>] }

\* pd.read_csv(path) under the loaders' try: the table, or the
\* pd.DataFrame() of the else and except branches.
read_csv_or_empty(file) ==
  IF file.state = "ok" THEN [columns |-> file.columns, rows |-> file.rows] 
  ELSE [columns |-> {}, rows |-> <<>>]

load_demo_contracts(fs) == read_csv_or_empty(fs.dummy)

load_uploaded_contracts(fs) == read_csv_or_empty(fs.uploaded)

\* uploaded_contracts.csv first when it exists, else dummy_contracts_50.csv.
load_unified_contracts(fs) ==
  IF fs.uploaded.state # "absent" THEN read_csv_or_empty(fs.uploaded)
  ELSE read_csv_or_empty(fs.dummy)

load_cfo_jsonl_insights(fs) ==
  IF fs.jsonl.state = "ok" THEN fs.jsonl.insights ELSE <<>>

\* The bundle as lines 125-130 create it.
new_bundle ==
  [has_csv |-> TRUE, is_none |-> TRUE, columns |-> {}, rows |-> <<>>,
   cfo_insights |-> <<>>, risk_assessment |-> EmptyDict, executive_summary |-> EmptyDict]

\* Lines 136-148 computing the aggregates also without insights (mutant).
with_insights_always(df, insights, t) ==
  LET risk == generate_risk_assessment(df.rows, df.columns, t)
      summary == generate_executive_summary(df.rows, df.columns)
      stored == [new_bundle EXCEPT !.is_none = FALSE, !.columns = df.columns, !.rows = df.rows]
  IN IF risk.raised \/ summary.raised THEN [raised |-> TRUE, value |-> new_bundle]
     ELSE [raised |-> FALSE,
           value |-> [stored EXCEPT !.cfo_insights = insights,
                                    !.risk_assessment = risk.value,
                                    !.executive_summary = summary.value]]

\* Lines 136-148 and 164-175: the table is stored, and with insights on disk
\* the two aggregates are computed (nothing is caught around them).
with_insights(df, insights, t) ==
  LET risk == generate_risk_assessment(df.rows, df.columns, t)
      summary == generate_executive_summary(df.rows, df.columns)
      stored == [new_bundle EXCEPT !.is_none = FALSE, !.columns = df.columns, !.rows = df.rows]
  IN IF insights = <<>> THEN [raised |-> FALSE, value |-> stored]
     ELSE IF risk.raised \/ summary.raised THEN [raised |-> TRUE, value |-> new_bundle]
     ELSE [raised |-> FALSE,
           value |-> [stored EXCEPT !.cfo_insights = insights,
                                    !.risk_assessment = risk.value,
                                    !.executive_summary = summary.value]]

\* @st.cache_data: a call is answered from the function's cache entry when
\* there is one; the body runs (and its value is stored) only otherwise.
cached(entry, value) == IF entry.state = "hit" THEN entry.value ELSE value

\* load_cfo_analytics_data(mode) with the files fs and the caches c at
\* clock t: what is raised or returned, the table its loader returned when
\* the body ran with a known mode, and the caches afterwards.  A call that
\* raises stores nothing for the bundle.
load_cfo_analytics_data(fs, c, mode, t) ==
  LET key == IF mode = "unified" THEN "unified"
             ELSE IF mode = "demo" THEN "demo" ELSE "uploaded"
      df == cached(c[key], IF mode = "unified" THEN load_unified_contracts(fs)
                           ELSE IF mode = "demo" THEN load_demo_contracts(fs)
                           ELSE load_uploaded_contracts(fs))
      insights == cached(c.jsonl, load_cfo_jsonl_insights(fs))
      known == mode \in {"unified", "demo", "live"}
      made == IF ~known \/ df.rows = <<>> THEN [raised |-> FALSE, value |-> new_bundle]
              ELSE IF mode = "demo" THEN with_insights(df, <<>>, t)
              ELSE with_insights(df, insights, t)
      c1 == IF known THEN [c EXCEPT ![key] = [state |-> "hit", value |-> df]] ELSE c
      c2 == IF known /\ mode # "demo" /\ df.rows # <<>>
            THEN [c1 EXCEPT !.jsonl = [state |-> "hit", value |-> insights]] ELSE c1
  IN IF c.bundle[mode].state = "hit"
       THEN [raised |-> FALSE, value |-> c.bundle[mode].value, ran |-> FALSE, cache |-> c]
     ELSE [raised |-> made.raised, value |-> made.value, ran |-> known,
           table |-> df,
           cache |-> IF made.raised THEN c2
                     ELSE [c2 EXCEPT !.bundle[mode] = [state |-> "hit", value |-> made.value]]]

\* The dimensions in the order of their last appearance (mutant).
dimension_order_by_last(insights) ==
  LET seen[i \in 0..Len(insights)] ==
        IF i = 0 THEN <<>>
        ELSE Append(SelectSeq(seen[i - 1], LAMBDA d : d # insights[i].dimension),
                    insights[i].dimension)
  IN seen[Len(insights)]

\* The dimensions of the insights in the order a dict first sees them.
dimension_order(insights) ==
  LET seen[i \in 0..Len(insights)] ==
        IF i = 0 THEN <<>>
        ELSE IF \E j \in 1..Len(seen[i - 1]) : seen[i - 1][j] = insights[i].dimension
          THEN seen[i - 1]
          ELSE Append(seen[i - 1], insights[i].dimension)
  IN seen[Len(insights)]

\* executive.create_page(analytics_data): the expanders drawn, or the
\* KeyError of insight['dimension'].
executive_create_page(ad) ==
  IF ad.cfo_insights = <<>>
    THEN [raised |-> FALSE, value |-> <<"No CFO insights available.">>]
  ELSE IF \E i \in 1..Len(ad.cfo_insights) : "dimension" \notin DOMAIN ad.cfo_insights[i]
    THEN [raised |-> TRUE, value |-> <<>>]
  ELSE [raised |-> FALSE,
        value |-> [k \in 1..Len(dimension_order(ad.cfo_insights)) |->
                     [dimension |-> dimension_order(ad.cfo_insights)[k],
                      insights |-> SelectSeq(ad.cfo_insights,
                                     LAMBDA x : x.dimension = dimension_order(ad.cfo_insights)[k])]]]

\* The application starts with whatever files are on disk, empty caches and
\* the bundle of empty values.
InitLoad ==
  /\ files \in [uploaded : CsvFiles, dummy : CsvFiles, jsonl : JsonlFiles]
  /\ cache = [unified |-> [state |-> "miss"], demo |-> [state |-> "miss"],
              uploaded |-> [state |-> "miss"], jsonl |-> [state |-> "miss"],
              bundle |-> [mode \in {"unified", "demo", "live", "other"} |-> [state |-> "miss"]]]
  /\ analytics_data = new_bundle
  /\ now \in 0..MaxNow
  /\ graph_context = <<>>
  /\ last = Idle
  /\ PageAtStart /\ ConfigAtStart

\* The user uploads the contracts file, or the pipeline exports the insights
\* file, where there was none.  dummy_contracts_50.csv ships with the
\* application and is not written while it runs.
WriteFile(name, content) ==
  /\ last = Idle
  /\ files[name].state = "absent"
  /\ files[name] # content
  /\ files' = [files EXCEPT ![name] = content]
  /\ UNCHANGED <<cache, analytics_data, now, graph_context, last, page_vars, config_vars>>

\* The five minutes of load_cfo_analytics_data's ttl have passed: its cache
\* entries are dropped.  The loaders' caches have no ttl.
CacheExpires ==
  /\ last = Idle
  /\ \E mode \in DOMAIN cache.bundle : cache.bundle[mode].state = "hit"
  /\ cache' = [cache EXCEPT !.bundle = [mode \in DOMAIN cache.bundle |-> [state |-> "miss"]]]
  /\ UNCHANGED <<files, analytics_data, now, graph_context, last, page_vars, config_vars>>

\* The application loads the bundle its pages are given; when the load
\* raises, the pages keep the bundle they had.
LoadAnalytics(mode) ==
  /\ last = Idle
  /\ \E r \in {load_cfo_analytics_data(files, cache, mode, now)} :
       /\ last' = [op |-> "load_cfo_analytics_data", mode |-> mode,
                   result |-> [f \in DOMAIN r \ {"cache"} |-> r[f]]]
       /\ analytics_data' = IF r.raised THEN analytics_data ELSE r.value
       /\ cache' = r.cache
  /\ UNCHANGED <<now, graph_context, files, page_vars, config_vars>>

\* The Executive Insights page is drawn with the bundle.
RenderExecutive ==
  /\ last = Idle
  /\ last' = [op |-> "executive.create_page", result |-> executive_create_page(analytics_data)]
  /\ UNCHANGED <<analytics_data, now, graph_context, loader_vars, page_vars, config_vars>>

NextLoad ==
  \/ \E c \in CsvFiles : WriteFile("uploaded", c)
  \/ \E c \in JsonlFiles : WriteFile("jsonl", c)
  \/ \E mode \in {"unified", "demo", "live", "other"} : LoadAnalytics(mode)
  \/ CacheExpires
  \/ RenderExecutive
  \/ \E q \in {"penalty", "hello"}, llm \in LlmOutcomes : AskAI(q, llm)
  \/ CallRiskAssessment
  \/ CallExecutiveSummary
  \/ Finish

SpecLoad == InitLoad /\ [][NextLoad]_vars

-----------------------------------------------------------------------------
(* main.py and config.py: the process-wide graph state, initialize_globals *)
(* at startup, and the process_simple and export_cfo_data callbacks of the *)
(* UI sessions, which the server runs on worker threads: a callback is a   *)
(* sequence of steps, and steps of different sessions interleave.          *)
(* graph, extraction, cfo_analytics, export and graphrag_persistence are   *)
(* modelled by what main.py and config.py rely on: a document yields the   *)
(* nodes of its triples, build_graph adds them to config.G, and            *)
(* detect_communities maps each node of the graph to a community.          *)

\* What the persistence layer holds on disk.
Persisted ==
  [G |-> [nodes |-> {<<"disk", 1>>}], PARTITION |-> [n \in {<<"disk", 1>>} |-> 0],
   GRAPH_CONTEXT_MEMORY |-> "memory", RAW_COMBINED_TEXT |-> "raw",
   CLUSTER_SUMMARIES |-> [c \in {0} |-> "summary"]]

\* The except branch of initialize_globals resetting only the graph (mutant).
reset_globals_graph_only(st) == [st EXCEPT !.G = NoneValue]

\* Lines 146-151: the except branch of initialize_globals.
reset_globals(st) ==
  [st EXCEPT !.G = NoneValue, !.PARTITION = EmptyDict,
             !.GRAPH_CONTEXT_MEMORY = "", !.RAW_COMBINED_TEXT = ""]

\* initialize_globals() from the globals st.  import_ok: the import of
\* graphrag_persistence succeeds; loaders: for each of the four loaders
\* whether it returns ("ok"), raises ("raise") or, for the graph, returns
\* None ("none").  The assignments are made in order up to the first
\* failure; the print of line 144 fails on a graph that is None.
initialize_globals(st, import_ok, loaders) ==
  LET s1 == [st EXCEPT !.G = IF loaders.graph = "none" THEN NoneValue ELSE Persisted.G]
      s2 == [s1 EXCEPT !.PARTITION = Persisted.PARTITION]
      s3 == [s2 EXCEPT !.GRAPH_CONTEXT_MEMORY = Persisted.GRAPH_CONTEXT_MEMORY]
      s4 == [s3 EXCEPT !.RAW_COMBINED_TEXT = Persisted.RAW_COMBINED_TEXT]
      tried == IF ~import_ok \/ loaders.graph = "raise" THEN reset_globals(st)
               ELSE IF loaders.partition = "raise" THEN reset_globals(s1)
               ELSE IF loaders.memory = "raise" THEN reset_globals(s2)
               ELSE IF loaders.raw = "raise" THEN reset_globals(s3)
               ELSE IF s4.G = NoneValue THEN reset_globals(s4)
               ELSE s4
  IN [tried EXCEPT !.SEARCH_OPTIONS = <<>>, !.CLUSTER_SUMMARIES = EmptyDict]

\* Line 90 keeping a graph that is already there (mutant).
reset_graph_keep(g) == IF g = NoneValue THEN [nodes |-> {}] ELSE g

\* Line 90: config.G = nx.DiGraph(), whatever config.G was.
reset_graph(g) == [nodes |-> {}]

\* graph.build_graph(extracted, source=src) on the graph config.G names.
build_graph(g, doc) == [nodes |-> g.nodes \cup doc.nodes]

\* graph.detect_communities(g): the graph and its partition.
detect_communities(g) == [G |-> g, PARTITION |-> [n \in g.nodes |-> 0]]

\* export_cfo_data() with config.G = g; out is what
\* export.export_all_cfo_formats() does: raise, or return paths, each with
\* whether the file exists.  main.py does not import os, so testing a
\* non-empty path raises NameError, which the except branch turns into [].
export_cfo_data(g, out) ==
  IF g = NoneValue \/ g.nodes = {}
    THEN [op |-> "export_cfo_data", called |-> FALSE, exported |-> {}, value |-> <<>>]
  ELSE [op |-> "export_cfo_data", called |-> TRUE, exported |-> g.nodes, out |-> out,
        value |-> IF out.raised THEN <<>>
                  ELSE IF \E i \in 1..Len(out.paths) : out.paths[i].path # "" THEN <<>>
                  ELSE <<>>]

\* A session's callback has returned r.
returned(r) == [pc |-> "returned", corpus |-> <<>>, built |-> {}, result |-> r]

\* main() calls initialize_system() before the interface is launched.
InitializeGlobals(import_ok, loaders) ==
  /\ boot = Idle
  /\ \E r \in {initialize_globals(
                 [G |-> G, PARTITION |-> PARTITION,
                  GRAPH_CONTEXT_MEMORY |-> GRAPH_CONTEXT_MEMORY,
                  RAW_COMBINED_TEXT |-> RAW_COMBINED_TEXT,
                  CLUSTER_SUMMARIES |-> CLUSTER_SUMMARIES,
                  SEARCH_OPTIONS |-> SEARCH_OPTIONS], import_ok, loaders)} :
       /\ G' = r.G
       /\ PARTITION' = r.PARTITION
       /\ GRAPH_CONTEXT_MEMORY' = r.GRAPH_CONTEXT_MEMORY
       /\ RAW_COMBINED_TEXT' = r.RAW_COMBINED_TEXT
       /\ CLUSTER_SUMMARIES' = r.CLUSTER_SUMMARIES
       /\ SEARCH_OPTIONS' = r.SEARCH_OPTIONS
  /\ boot' = [op |-> "initialize_globals", import_ok |-> import_ok, loaders |-> loaders,
              raised |-> FALSE]
  /\ UNCHANGED <<sessions, analytics_data, now, graph_context, last, page_vars, loader_vars>>

\* Lines 73-87: no uploads, a file that cannot be read, or no text at all
\* end the callback; otherwise the texts are kept for the loop.
ProcessBegin(s, uploads) ==
  /\ boot # Idle
  /\ sessions[s].pc = "idle"
  /\ sessions' = [sessions EXCEPT ![s] =
       IF uploads = <<>>
         THEN returned([op |-> "process_simple", status |-> "error",
                        message |-> "Please upload contract files"])
       ELSE IF \E i \in 1..Len(uploads) : uploads[i].kind = "unreadable"
         THEN returned([op |-> "process_simple", status |-> "error",
                        message |-> "Analysis error"])
       ELSE IF SelectSeq(uploads, LAMBDA d : d.kind # "blank") = <<>>
         THEN returned([op |-> "process_simple", status |-> "warning",
                        message |-> "No extractable text found"])
       ELSE [pc |-> "reset", corpus |-> SelectSeq(uploads, LAMBDA d : d.kind # "blank"),
             built |-> {}, result |-> Idle]]
  /\ UNCHANGED <<G, PARTITION, GRAPH_CONTEXT_MEMORY, RAW_COMBINED_TEXT, CLUSTER_SUMMARIES,
                 SEARCH_OPTIONS, boot>>
  /\ UNCHANGED <<analytics_data, now, graph_context, last, page_vars, loader_vars>>

\* Line 90.
ProcessReset(s) ==
  /\ sessions[s].pc = "reset"
  /\ G' = reset_graph(G)
  /\ sessions' = [sessions EXCEPT ![s].pc = "build"]
  /\ UNCHANGED <<PARTITION, GRAPH_CONTEXT_MEMORY, RAW_COMBINED_TEXT, CLUSTER_SUMMARIES,
                 SEARCH_OPTIONS, boot>>
  /\ UNCHANGED <<analytics_data, now, graph_context, last, page_vars, loader_vars>>

\* Lines 93-96, one turn of the loop: the document's triples are added to
\* the graph config.G names now, or the extraction raises.
ProcessBuild(s) ==
  /\ sessions[s].pc = "build"
  /\ sessions[s].corpus # <<>>
  /\ LET doc == Head(sessions[s].corpus)
     IN IF doc.kind = "garbled"
          THEN /\ sessions' = [sessions EXCEPT ![s] =
                     returned([op |-> "process_simple", status |-> "error",
                               message |-> "Analysis error"])]
               /\ G' = G
          ELSE /\ sessions' = [sessions EXCEPT ![s].corpus = Tail(@),
                                               ![s].built = @ \cup doc.nodes]
               /\ G' = build_graph(G, doc)
  /\ UNCHANGED <<PARTITION, GRAPH_CONTEXT_MEMORY, RAW_COMBINED_TEXT, CLUSTER_SUMMARIES,
                 SEARCH_OPTIONS, boot>>
  /\ UNCHANGED <<analytics_data, now, graph_context, last, page_vars, loader_vars>>

\* Lines 99-103: an empty graph ends the callback; otherwise the graph and
\* the partition are replaced by detect_communities' result.
ProcessAnalyze(s) ==
  /\ sessions[s].pc = "build"
  /\ sessions[s].corpus = <<>>
  /\ IF G.nodes = {}
       THEN /\ sessions' = [sessions EXCEPT ![s] =
                  returned([op |-> "process_simple", status |-> "warning",
                            message |-> "No relationships extracted"])]
            /\ UNCHANGED <<G, PARTITION>>
       ELSE /\ sessions' = [sessions EXCEPT ![s].pc = "metrics"]
            /\ G' = detect_communities(G).G
            /\ PARTITION' = detect_communities(G).PARTITION
  /\ UNCHANGED <<GRAPH_CONTEXT_MEMORY, RAW_COMBINED_TEXT, CLUSTER_SUMMARIES,
                 SEARCH_OPTIONS, boot>>
  /\ UNCHANGED <<analytics_data, now, graph_context, last, page_vars, loader_vars>>

\* Lines 106-124: the metrics are computed from config.G and returned.
ProcessReturn(s) ==
  /\ sessions[s].pc = "metrics"
  /\ sessions' = [sessions EXCEPT ![s] =
       [pc |-> "returned", corpus |-> <<>>, built |-> @.built,
        result |-> [op |-> "process_simple", status |-> "success",
                    message |-> "Analysis complete", analysed |-> G.nodes]]]
  /\ UNCHANGED <<G, PARTITION, GRAPH_CONTEXT_MEMORY, RAW_COMBINED_TEXT, CLUSTER_SUMMARIES,
                 SEARCH_OPTIONS, boot>>
  /\ UNCHANGED <<analytics_data, now, graph_context, last, page_vars, loader_vars>>

\* The Export CFO Reports button.
Export(s, out) ==
  /\ boot # Idle
  /\ sessions[s].pc = "idle"
  /\ sessions' = [sessions EXCEPT ![s] = returned(export_cfo_data(G, out))]
  /\ UNCHANGED <<G, PARTITION, GRAPH_CONTEXT_MEMORY, RAW_COMBINED_TEXT, CLUSTER_SUMMARIES,
                 SEARCH_OPTIONS, boot>>
  /\ UNCHANGED <<analytics_data, now, graph_context, last, page_vars, loader_vars>>

\* The outputs are shown; the session can click again.
SessionDone(s) ==
  /\ sessions[s].pc = "returned"
  /\ sessions' = [sessions EXCEPT ![s] = [pc |-> "idle"]]
  /\ UNCHANGED <<G, PARTITION, GRAPH_CONTEXT_MEMORY, RAW_COMBINED_TEXT, CLUSTER_SUMMARIES,
                 SEARCH_OPTIONS, boot>>
  /\ UNCHANGED <<analytics_data, now, graph_context, last, page_vars, loader_vars>>

InitMain ==
  /\ ConfigAtStart
  /\ analytics_data = new_bundle
  /\ now = 0
  /\ graph_context = <<>>
  /\ last = Idle
  /\ PageAtStart /\ FilesAtStart

\* The uploads of a session are its own documents (their nodes carry the
\* session's name), a document without text, one without triples, one that
\* cannot be read and one whose extraction raises.
NextMain ==
  \/ \E import_ok \in BOOLEAN,
        loaders \in [graph : {"ok", "raise", "none"}, partition : {"ok", "raise"},
                     memory : {"ok", "raise"}, raw : {"ok", "raise"}] :
       InitializeGlobals(import_ok, loaders)
  \/ \E s \in Sessions :
       \E uploads \in
            { <<>>, <<[kind |-> "blank"]>>, <<[kind |-> "unreadable"]>>,
              <<[kind |-> "text", nodes |-> {}]>>,
              <<[kind |-> "text", nodes |-> {<<s, 1>>}], [kind |-> "text", nodes |-> {<<s, 2>>}]>>,
              <<[kind |-> "text", nodes |-> {<<s, 1>>}], [kind |-> "garbled"]>> } :
         ProcessBegin(s, uploads)
  \/ \E s \in Sessions : ProcessReset(s)
  \/ \E s \in Sessions : ProcessBuild(s)
  \/ \E s \in Sessions : ProcessAnalyze(s)
  \/ \E s \in Sessions : ProcessReturn(s)
  \/ \E s \in Sessions,
        out \in {[raised |-> TRUE], [raised |-> FALSE, paths |-> <<>>],
                 [raised |-> FALSE, paths |-> <<[path |-> "", exists |-> FALSE]>>],
                 [raised |-> FALSE,
                  paths |-> <<[path |-> "cfo.jsonl", exists |-> TRUE],
                              [path |-> "", exists |-> FALSE],
                              [path |-> "cfo.csv", exists |-> FALSE]>>]} : Export(s, out)
  \/ \E s \in Sessions : SessionDone(s)

SpecMain == InitMain /\ [][NextMain]_vars

-----------------------------------------------------------------------------
(* Properties.  The definitions below state what is checked; they read the *)
(* record of the last call and the state the call was made in.             *)

\* Whether a text holds a fragment; the fragment that follows one.
has(text, frag) == \E i \in 1..Len(text) : text[i] = frag

after(text, frag) == text[(CHOOSE i \in 1..Len(text) : text[i] = frag) + 1]

\* The TableRows that are the first of their contract_id, by position.
FirstOfId(df) ==
  {i \in 1..Len(df) : \A j \in 1..(i - 1) : df[j].contract_id # df[i].contract_id}

RECURSIVE SumAt(_, _, _)
\* The sum of a column over the TableRows at the positions in S.
SumAt(df, col, S) ==
  IF S = {} THEN 0
  ELSE LET i == CHOOSE x \in S : TRUE IN df[i][col] + SumAt(df, col, S \ {i})

TableRows == analytics_data.rows

\* The analysis returned a report, not its error text.
ReportReturned ==
  /\ last.op = "generate_comprehensive_csv_analysis"
  /\ last.result[1] # "Error in CSV analysis: "

\* C1: generate_ai_response returns a text for every question and every
\* bundle (key missing, None, empty table, missing columns, completion call
\* raising): no exception leaves the function.
C1_NoExceptionPropagates ==
  last.op = "generate_ai_response" =>
    /\ ~last.result.raised
    /\ last.result.out \in Seq(STRING)

\* C1 witness: the bundle's table is None, so the try block and the handler's
\* own try block both raise, and the apology is returned.
C1_Witness ==
  /\ last.op = "generate_ai_response"
  /\ analytics_data.has_csv /\ analytics_data.is_none
  /\ last.llm.kind = "raise"
  /\ last.result.out[1] = "I encountered an error while processing your question: "

\* C2 (as claimed): on a non-empty table, when the CSV analysis or the
\* completion call fails, the answer is the one of the keyword rules of
\* generate_simple_csv_response.
C2_FallbackOnFailure ==
  ( /\ last.op = "generate_ai_response"
    /\ has_table /\ TableRows # <<>>
    /\ \/ last.llm.kind = "raise"
       \/ generate_comprehensive_csv_analysis(TableRows, analytics_data.columns, last.prompt, now)[1]
            = "Error in CSV analysis: " )
  => last.result.out =
       generate_simple_csv_response(last.prompt, TableRows, analytics_data.columns, now)

\* C3: on an empty table generate_ai_response returns the fixed message and
\* calls neither the analysis, nor the completion, nor the keyword rules.
C3_EmptyTableShortCircuits ==
  (last.op = "generate_ai_response" /\ has_table /\ TableRows = <<>>) =>
    /\ last.result.out = <<"No contract data available. Please check your data sources.">>
    /\ last.result.steps = <<>>

\* C3 witness: a question was answered over an empty table.
C3_Witness ==
  /\ last.op = "generate_ai_response"
  /\ has_table /\ TableRows = <<>>
  /\ last.llm.kind = "raise"
  /\ last.result.steps = <<>>

\* C4 (as claimed): every aggregate counts a contract_id once: adding a second
\* row of a contract_id already in the table changes no result of the chatbot
\* analysis, the keyword rules, generate_risk_assessment or
\* generate_executive_summary.
C4_DuplicatesCountedOnce ==
  \A r \in Range(CsvRows) :
    ( /\ has_table /\ analytics_data.columns = AllColumns
      /\ \E i \in 1..Len(TableRows) : TableRows[i].contract_id = r.contract_id )
    => LET more == Append(TableRows, r)
       IN /\ last.op = "generate_comprehensive_csv_analysis" =>
               last.result = generate_comprehensive_csv_analysis(more, AllColumns, last.prompt, now)
          /\ last.op = "generate_simple_csv_response" =>
               last.result = generate_simple_csv_response(last.prompt, more, AllColumns, now)
          /\ last.op = "generate_risk_assessment" =>
               last.result = generate_risk_assessment(more, AllColumns, now)
          /\ last.op = "generate_executive_summary" =>
               last.result = generate_executive_summary(more, AllColumns)

\* The claim's test: (end_date - now).days / 30 <= n, false for a missing date.
InBucket(r, t, n) ==
  /\ r.end_date # <<>>
  /\ ((r.end_date[1] * TicksPerDay - t) \div TicksPerDay) <= 30 * n

\* C5: a row is in the expiring bucket of n months (n = 6, 24) iff
\* (end_date - now).days / 30 <= n, the same in the chatbot analysis, the
\* 6-month keyword rule and generate_risk_assessment; a row without end_date
\* is in no bucket.
C5_ExpiryBucket ==
  /\ has_table =>
       \A n \in {6, 24} : \A i \in 1..Len(TableRows) :
         has(expiring(TableRows, now, n), TableRows[i]) <=> InBucket(TableRows[i], now, n)
  /\ (ReportReturned /\ has(last.result, "\n=== CONTRACT EXPIRY ANALYSIS ===")) =>
       /\ after(last.result, "* Expiring in 6 months: ") =
            ToString(Cardinality({i \in FirstOfId(TableRows) : InBucket(TableRows[i], now, 6)}))
       /\ after(last.result, "* Expiring in 2 years: ") =
            ToString(Cardinality({i \in FirstOfId(TableRows) : InBucket(TableRows[i], now, 24)}))
  /\ ( /\ last.op = "generate_simple_csv_response"
       /\ last.prompt = "Expiring in 6 months?"
       /\ {"contract_id", "end_date"} \subseteq analytics_data.columns ) =>
       LET n6 == Cardinality({i \in FirstOfId(TableRows) : InBucket(TableRows[i], now, 6)})
       IN IF n6 = 0
          THEN last.result = <<"No contracts are expiring in the next 6 months.">>
          ELSE last.result[1] = "You have " /\ last.result[2] = ToString(n6)
  /\ (last.op = "generate_risk_assessment" /\ ~last.result.raised /\ TableRows # <<>>) =>
       last.result.value.expiring_soon =
         Cardinality({i \in 1..Len(TableRows) : InBucket(TableRows[i], now, 6)})

\* C5 witness: the analysis ran at a time of day at which a contract ending
\* in 181 days has 180 whole days left (in the 6-month bucket), next to a row
\* without end_date.
C5_Witness ==
  /\ ReportReturned /\ has(last.result, "\n=== CONTRACT EXPIRY ANALYSIS ===")
  /\ now % TicksPerDay # 0
  /\ \E i \in FirstOfId(TableRows) :
       /\ TableRows[i].end_date # <<>>
       /\ (TableRows[i].end_date[1] * TicksPerDay - now) \div TicksPerDay = 180
  /\ \E i \in FirstOfId(TableRows) : TableRows[i].end_date = <<>>
  /\ after(last.result, "* Expiring in 6 months: ") = "1"

\* C6 (as claimed): the TableRows counted as expiring are those whose end date is
\* inside the window from now to 6 months (2 years) later; an end date before
\* now is outside the window.
C6_WindowStartsAtNow ==
  /\ (last.op = "generate_risk_assessment" /\ ~last.result.raised /\ TableRows # <<>>) =>
       last.result.value.expiring_soon =
         Cardinality({i \in 1..Len(TableRows) :
                        /\ InBucket(TableRows[i], now, 6)
                        /\ TableRows[i].end_date[1] * TicksPerDay >= now})
  /\ (ReportReturned /\ has(last.result, "\n=== CONTRACT EXPIRY ANALYSIS ===")) =>
       /\ after(last.result, "* Expiring in 6 months: ") =
            ToString(Cardinality({i \in FirstOfId(TableRows) :
                                    /\ InBucket(TableRows[i], now, 6)
                                    /\ TableRows[i].end_date[1] * TicksPerDay >= now}))
       /\ after(last.result, "* Expiring in 2 years: ") =
            ToString(Cardinality({i \in FirstOfId(TableRows) :
                                    /\ InBucket(TableRows[i], now, 24)
                                    /\ TableRows[i].end_date[1] * TicksPerDay >= now}))

\* The largest share of the portfolio value held by one counterparty, over
\* the first rows of each contract_id, as the pair <<value, total>>.
TopShare(df) ==
  LET first == FirstOfId(df)
      value(v) == SumAt(df, "total_value_usd", {i \in first : df[i].counterparty = v})
      top == CHOOSE v \in {df[i].counterparty : i \in first} :
               \A w \in {df[i].counterparty : i \in first} : value(w) <= value(v)
  IN <<value(top), SumAt(df, "total_value_usd", first)>>

HighLine == "! HIGH CONCENTRATION RISK: Top vendor represents "

ModerateLine == "! MODERATE CONCENTRATION RISK: Top vendor represents "

\* The report holds the vendor section of a table with contracts.
VendorSectionReturned ==
  /\ ReportReturned
  /\ has(last.result, "\n=== TOP VENDORS ANALYSIS ===")
  /\ TableRows # <<>>

\* C7 (as claimed, the band read with both ends): a top share above 50%
\* gives the HIGH line, a share from 30% to 50% the MODERATE line, a share
\* below 30% neither, and never both lines.
C7_BandInclusive ==
  VendorSectionReturned =>
    LET s == TopShare(TableRows)
    IN /\ s[1] * 100 > 50 * s[2] => has(last.result, HighLine)
       /\ (s[1] * 100 >= 30 * s[2] /\ s[1] * 100 <= 50 * s[2]) => has(last.result, ModerateLine)
       /\ s[1] * 100 < 30 * s[2] =>
            ~has(last.result, HighLine) /\ ~has(last.result, ModerateLine)
       /\ ~(has(last.result, HighLine) /\ has(last.result, ModerateLine))

\* C7 (amended): a top share above 50% gives the HIGH line only; a share
\* above 30% and at most 50% gives the MODERATE line only; a share of 30% or
\* less gives neither line.
C7_Bands ==
  VendorSectionReturned =>
    LET s == TopShare(TableRows)
        high == has(last.result, HighLine)
        moderate == has(last.result, ModerateLine)
    IN /\ s[1] * 100 > 50 * s[2] => (high /\ ~moderate)
       /\ (s[1] * 100 > 30 * s[2] /\ s[1] * 100 <= 50 * s[2]) => (moderate /\ ~high)
       /\ s[1] * 100 <= 30 * s[2] => (~high /\ ~moderate)

\* C7 witness: the top vendor holds exactly 50% and the report carries the
\* MODERATE line.
C7_Witness ==
  /\ VendorSectionReturned
  /\ TopShare(TableRows)[1] * 2 = TopShare(TableRows)[2]
  /\ has(last.result, ModerateLine)
  /\ ~has(last.result, HighLine)

\* C8: for a question that holds "total" and "value" in any letter case,
\* generate_simple_csv_response over a table with the contract_id and
\* total_value_usd columns returns a text with the sum of total_value_usd
\* over the de-duplicated rows and the number of de-duplicated contracts.
C8_TotalValueRule ==
  ( /\ last.op = "generate_simple_csv_response"
    /\ last.prompt = "What is the TOTAL Value?"
    /\ {"contract_id", "total_value_usd"} \subseteq analytics_data.columns )
  => LET first == FirstOfId(TableRows)
     IN /\ after(last.result,
                 "Based on contract analysis, your total contract portfolio value is $")
             = fmt_money(SumAt(TableRows, "total_value_usd", first))
        /\ after(last.result, " across ") = ToString(Cardinality(first))

\* C8 witness: the rule answered over a table in which a contract_id occurs
\* twice.
C8_Witness ==
  /\ last.op = "generate_simple_csv_response"
  /\ last.prompt = "What is the TOTAL Value?"
  /\ {"contract_id", "total_value_usd"} \subseteq analytics_data.columns
  /\ Cardinality(FirstOfId(TableRows)) < Len(TableRows)
  /\ has(last.result, " across ")

\* The keyword groups and vendor names each question holds, read off the
\* lower-cased question.
GroupsOf(q) ==
  CASE q = "top vendors" -> {"vendor"}
    [] q = "Stop" -> {"vendor"}
    [] q = "Expiring in 6 months?" -> {"expiry"}
    [] q = "IBM timeline" -> {"expiry", "IBM"}
    [] q = "SAP renewal" -> {"expiry", "SAP"}
    [] q = "payment terms" -> {"payment"}
    [] q = "penalty" -> {"risk"}
    [] q = "Total value of top vendor" -> {"vendor"}
    [] q = "top vendor expiring in 6 months" -> {"vendor", "expiry"}
    [] q = "ibm timeline expiring 6 months" -> {"expiry", "IBM"}
    [] q = "IBM timeline payment terms" -> {"expiry", "payment", "IBM"}
    [] q = "payment terms penalty" -> {"payment", "risk"}
    [] OTHER -> {}

GroupHeader(g) ==
  CASE g = "vendor" -> "\n=== TOP VENDORS ANALYSIS ==="
    [] g = "expiry" -> "\n=== CONTRACT EXPIRY ANALYSIS ==="
    [] g = "payment" -> "\n=== PAYMENT TERMS ANALYSIS ==="
    [] g = "risk" -> "\n=== RISK ANALYSIS ==="

\* The report holds the section of the named vendor.
HasVendorSection(text, v) ==
  \E i \in 1..(Len(text) - 2) :
    /\ text[i] = "\n=== "
    /\ text[i + 1] = v
    /\ text[i + 2] = " CONTRACTS DETAILED ANALYSIS ==="

\* The counterparties of the file whose name holds the vendor's name.
CounterpartiesOf(v) ==
  CASE v = "IBM" -> {"IBM Corp"}
    [] v = "Oracle" -> {"Oracle Inc"}
    [] v = "SAP" -> {"SAP SE"}
    [] OTHER -> {}

\* C9 (as claimed): in a report the section of each keyword group and of each
\* named vendor is present iff the question holds one of its keywords, and
\* the portfolio overview is always present.
C9_SectionsIffKeyword ==
  ReportReturned =>
    /\ last.result[1] = "=== PORTFOLIO OVERVIEW ==="
    /\ \A g \in {"vendor", "expiry", "payment", "risk"} :
         has(last.result, GroupHeader(g)) <=> g \in GroupsOf(last.prompt)
    /\ \A v \in {"IBM", "Oracle", "SAP", "Microsoft"} :
         HasVendorSection(last.result, v) <=> v \in GroupsOf(last.prompt)

\* C9 (amended): in a report (a return that is not the error text) the
\* section of each keyword group is present iff the question holds one of
\* its keywords; the section of a named vendor is present iff the question
\* holds the name and a de-duplicated contract's counterparty holds it; the
\* portfolio overview is always present.
C9_Sections ==
  ReportReturned =>
    /\ last.result[1] = "=== PORTFOLIO OVERVIEW ==="
    /\ \A g \in {"vendor", "expiry", "payment", "risk"} :
         has(last.result, GroupHeader(g)) <=> g \in GroupsOf(last.prompt)
    /\ \A v \in {"IBM", "Oracle", "SAP", "Microsoft"} :
         HasVendorSection(last.result, v) <=>
           /\ v \in GroupsOf(last.prompt)
           /\ \E i \in FirstOfId(TableRows) : TableRows[i].counterparty \in CounterpartiesOf(v)

\* C9 witness: the question names SAP, the table has contracts but none of
\* SAP, and the report has the expiry section and no SAP section.
C9_Witness ==
  /\ ReportReturned
  /\ last.prompt = "SAP renewal"
  /\ TableRows # <<>>
  /\ \A i \in 1..Len(TableRows) : TableRows[i].counterparty # "SAP SE"
  /\ has(last.result, "\n=== CONTRACT EXPIRY ANALYSIS ===")
  /\ ~HasVendorSection(last.result, "SAP")

\* Position of a fragment in a text.
at(text, frag) == CHOOSE i \in 1..Len(text) : text[i] = frag

\* The text has nothing but white space.
Blank(text) == \A i \in 1..Len(text) : text[i] \in {"", " ", "  ", "\n", "\t"}

\* C10: build_combined_context puts the CSV analysis part first, the graph
\* part second and the instruction block last; a part is present iff its
\* input is not blank; the instruction block is always there, so the result
\* is never empty.
C10_ContextOrder ==
  last.op = "build_combined_context" =>
    LET out == last.result
        csv == last.csv_analysis
        graph == last.graph_context
    IN /\ out # <<>>
       /\ out[Len(out)] = Instructions
       /\ has(out, CsvHeader) <=> ~Blank(csv)
       /\ has(out, GraphHeader) <=> ~Blank(graph)
       /\ ~Blank(csv) =>
            /\ at(out, CsvHeader) = 1
            /\ SubSeq(out, 2, 1 + Len(csv)) = csv
       /\ ~Blank(graph) =>
            /\ SubSeq(out, at(out, GraphHeader) + 1, at(out, GraphHeader) + Len(graph)) = graph
            /\ at(out, GraphHeader) + Len(graph) < at(out, Instructions)
       /\ (~Blank(csv) /\ ~Blank(graph)) =>
            at(out, CsvHeader) + Len(csv) < at(out, GraphHeader)

\* C10 witness: both inputs have text and the context has all three parts.
C10_Witness ==
  /\ last.op = "build_combined_context"
  /\ ~Blank(last.csv_analysis) /\ ~Blank(last.graph_context)
  /\ has(last.result, CsvHeader) /\ has(last.result, GraphHeader)
  /\ last.result[Len(last.result)] = Instructions

\* generate_ai_response answered over a table with rows.
AnsweredOverRows ==
  /\ last.op = "generate_ai_response"
  /\ has_table /\ TableRows # <<>>

CompletionCalls(steps) ==
  Cardinality({i \in 1..Len(steps) : steps[i] = "generate_openai_response"})

\* C12: answering a question makes at most one chat-completion call: exactly
\* one over a table with rows, also when that call fails, and none over an
\* empty, missing or None table.
C12_OneCompletionCall ==
  last.op = "generate_ai_response" =>
    /\ CompletionCalls(last.result.steps) <= 1
    /\ AnsweredOverRows => CompletionCalls(last.result.steps) = 1
    /\ ~AnsweredOverRows => CompletionCalls(last.result.steps) = 0

\* C12 witness: the completion call failed and was made once.
C12_Witness ==
  /\ AnsweredOverRows /\ last.llm.kind = "raise"
  /\ CompletionCalls(last.result.steps) = 1
  /\ last.result.out[1] = "Error generating OpenAI response: "

\* The first rule of generate_simple_csv_response whose keywords all occur
\* in each question, read off the lower-cased question (0: none).
FirstRule(q) ==
  CASE q \in {"What is the TOTAL Value?", "Total value of top vendor"} -> 1
    [] q \in {"top vendors", "top vendor expiring in 6 months"} -> 2
    [] q \in {"Expiring in 6 months?", "ibm timeline expiring 6 months"} -> 3
    [] q \in {"IBM timeline", "IBM timeline payment terms"} -> 4
    [] q \in {"payment terms", "payment terms penalty"} -> 5
    [] q = "penalty" -> 6
    [] OTHER -> 0

\* The openings of the answers of each rule.
RuleOpenings(k) ==
  CASE k = 1 -> {"Based on contract analysis, your total contract portfolio value is $"}
    [] k = 2 -> {"Top vendors by contract value:\n"}
    [] k = 3 -> {"You have ", "No contracts are expiring in the next 6 months."}
    [] k = 4 -> {"IBM Contract Timeline:\n", "No IBM contracts found in the portfolio."}
    [] k = 5 -> {"Found ", "Great news! All your contracts have favorable payment terms."}
    [] k = 6 -> {"You have "}
    [] k = 0 -> {"Based on analysis of your "}

\* What tells the answers of rules 3 and 6 apart: the third fragment.
RuleThird(k) ==
  CASE k = 3 -> " contracts expiring in the next 6 months: "
    [] k = 6 -> " contracts with SLA penalty clauses, representing $"

\* The keyword rules returned an answer, not their error text.
SimpleAnswered ==
  /\ last.op = "generate_simple_csv_response"
  /\ last.result[1] # "Error in simple analysis: "

\* C13: generate_simple_csv_response answers with the first rule, in the
\* order total+value, vendor+top, expiring+6 months, ibm+timeline,
\* payment+terms, penalty, whose keywords all occur in the lower-cased
\* question; when none does, with the generic message that states the
\* number of de-duplicated contracts.
C13_FirstRuleWins ==
  SimpleAnswered =>
    LET k == FirstRule(last.prompt)
    IN /\ last.result[1] \in RuleOpenings(k)
       /\ (k \in {3, 6} /\ last.result[1] = "You have ") => last.result[3] = RuleThird(k)
       /\ k = 0 => last.result[2] = ToString(Cardinality(FirstOfId(TableRows)))

\* C13 witness: the question holds the keywords of the payment rule and of
\* the penalty rule, and the payment rule answered.
C13_Witness ==
  /\ SimpleAnswered
  /\ last.prompt = "payment terms penalty"
  /\ last.result[1] = "Found "

-----------------------------------------------------------------------------
(* The chat page. *)

IsPrefix(s, t) == Len(s) <= Len(t) /\ SubSeq(t, 1, Len(s)) = s

RunningWith(kind) == run = "running" /\ event.kind = kind

Unanswered(messages) ==
  \E i \in 1..Len(messages) :
    /\ messages[i].role = "user"
    /\ \A j \in (i + 1)..Len(messages) : messages[j].role # "assistant"

\* C16: the chat history changes only by appending or by clearing; the run
\* of a submitted chat input appends exactly one user message with the
\* question and then exactly one assistant message, and the run of Clear
\* Chat History leaves the history empty.
C16_AppendOrClear ==
  [][ /\ (chat_messages' = <<>> \/ IsPrefix(chat_messages, chat_messages'))
      /\ (RunningWith("chat") =>
            /\ Len(chat_messages') = Len(chat_messages) + 2
            /\ chat_messages'[Len(chat_messages) + 1] = message("user", <<event.prompt>>)
            /\ chat_messages'[Len(chat_messages) + 2].role = "assistant")
      /\ (RunningWith("clear") => chat_messages' = <<>>) ]_vars

\* C19: whatever the state of the graph-context file, as long as it stays
\* as it is a requested run of the page leads to a run that completes
\* without asking for another one.
C19_RerunsEnd ==
  \A s \in {"absent", "readable", "unreadable"} :
    [](run = "requested" /\ context_file = s => <>(run = "done" \/ context_file # s))

\* C20: every user message of the chat history is eventually followed by
\* an assistant message.
C20_EveryQuestionAnswered ==
  [](Unanswered(chat_messages) => <>(~Unanswered(chat_messages)))

-----------------------------------------------------------------------------
(* The loaders and the pages fed by them. *)

\* C14: the entry points of utils.py and the Executive Insights page turn
\* a missing file, a table lacking an expected column and an insight
\* lacking the dimension field into a default value or a message: no
\* exception leaves load_cfo_analytics_data, generate_risk_assessment,
\* generate_executive_summary or executive.create_page.
C14_EntryPointsCatch ==
  last.op \in {"load_cfo_analytics_data", "generate_risk_assessment",
               "generate_executive_summary", "executive.create_page"}
    => ~last.result.raised

\* C18: asked over a bundle load_cfo_analytics_data returned with no
\* contract rows loaded, generate_ai_response answers with the fixed
\* "No contract data available" message.
C18_NoRowsNoDataMessage ==
  (last.op = "generate_ai_response" /\ analytics_data.rows = <<>>)
    => last.result.out = NoDataMessage

-----------------------------------------------------------------------------
(* The process-wide graph state. *)

\* The nodes a returned callback's result was computed from.
NodesRead(r) ==
  IF r.op = "process_simple" /\ r.status = "success" THEN r.analysed
  ELSE IF r.op = "export_cfo_data" /\ r.called THEN r.exported
  ELSE {}

\* C15: the sessions work on the one global graph: a session's reset empties
\* it whatever another session has built, a session's build step adds its
\* document's nodes to whatever the graph holds at that moment, and a
\* session's analysis or export reads the graph as it is at that moment.
C15_GraphIsShared ==
  [][ \A s \in Sessions :
        /\ (sessions[s].pc = "reset" /\ sessions'[s].pc = "build") => G'.nodes = {}
        /\ (sessions[s].pc = "build" /\ sessions'[s].pc = "build"
              /\ sessions'[s].corpus # sessions[s].corpus)
             => G'.nodes = G.nodes \cup Head(sessions[s].corpus).nodes
        /\ (sessions[s].pc = "metrics" /\ sessions'[s].pc = "returned")
             => NodesRead(sessions'[s].result) = G.nodes
        /\ (sessions[s].pc = "idle" /\ sessions'[s].pc = "returned"
              /\ sessions'[s].result.op = "export_cfo_data")
             => NodesRead(sessions'[s].result) = IF G = NoneValue THEN {} ELSE G.nodes ]_vars

\* C15 witness: one session is still in its run and nodes it added have
\* been wiped by the other session's reset, while the other session has
\* returned a result computed from a graph holding the first one's nodes.
C15_Witness ==
  \E s \in Sessions, t \in Sessions :
    /\ s # t
    /\ sessions[s].pc = "build"
    /\ ~(sessions[s].built \subseteq G.nodes)
    /\ sessions[t].pc = "returned"
    /\ NodesRead(sessions[t].result) \cap sessions[s].built # {}

\* initialize_globals has just returned.
Booted == boot = Idle /\ boot' # Idle

AllLoaded(b) ==
  b.import_ok /\ b.loaders = [graph |-> "ok", partition |-> "ok", memory |-> "ok", raw |-> "ok"]

FourGlobals(g, partition, memory, raw) ==
  /\ G' = g /\ PARTITION' = partition
  /\ GRAPH_CONTEXT_MEMORY' = memory /\ RAW_COMBINED_TEXT' = raw

\* C17 (as claimed): after initialize_globals returns with the persisted
\* state available, the graph, the partition map, the cluster summaries and
\* the context memory hold the values loaded from disk.
C17_PersistedValuesLoaded ==
  [][ Booted /\ AllLoaded(boot') =>
        /\ FourGlobals(Persisted.G, Persisted.PARTITION,
                       Persisted.GRAPH_CONTEXT_MEMORY, Persisted.RAW_COMBINED_TEXT)
        /\ CLUSTER_SUMMARIES' = Persisted.CLUSTER_SUMMARIES ]_vars

\* C17 (amended): initialize_globals returns without raising; G, PARTITION,
\* GRAPH_CONTEXT_MEMORY and RAW_COMBINED_TEXT hold the loaded values when
\* the import and the four loaders succeed, and None, {}, "" and "" all
\* together otherwise; CLUSTER_SUMMARIES and SEARCH_OPTIONS are {} and []
\* in every case.
C17_AllOrNothing ==
  [][ Booted =>
        /\ ~boot'.raised
        /\ IF AllLoaded(boot')
             THEN FourGlobals(Persisted.G, Persisted.PARTITION,
                              Persisted.GRAPH_CONTEXT_MEMORY, Persisted.RAW_COMBINED_TEXT)
             ELSE FourGlobals(NoneValue, EmptyDict, "", "")
        /\ CLUSTER_SUMMARIES' = EmptyDict
        /\ SEARCH_OPTIONS' = <<>> ]_vars

\* C17 witness: the graph and the partition were loaded, the context memory
\* loader raised, and all four globals hold their defaults.
C17_Witness ==
  /\ boot.op = "initialize_globals"
  /\ boot.import_ok
  /\ boot.loaders = [graph |-> "ok", partition |-> "ok", memory |-> "raise", raw |-> "ok"]
  /\ G = NoneValue /\ PARTITION = EmptyDict
  /\ GRAPH_CONTEXT_MEMORY = "" /\ RAW_COMBINED_TEXT = ""
  /\ \A s \in Sessions : sessions[s].pc = "idle"

-----------------------------------------------------------------------------
(* The session's graph context. *)

\* C21: graph_ready becomes true only in a step that reads the context
\* file into graph_context; once it is true it stays true and create_page
\* leaves graph_context as it is, whatever happens to the file; until then
\* graph_context is empty; build_knowledge_graph does not touch graph_ready.
C21_ReadyOnceLoaded ==
  [][ /\ (~graph_ready /\ graph_ready') =>
            \/ context_file = "readable" /\ graph_context' = GraphFileText
            \/ context_file = "rewritten"
                 /\ graph_context' = <<"Cluster 0: Oracle Inc governed_by License">>
      /\ graph_ready => (graph_ready' /\ graph_context' = graph_context)
      /\ ~graph_ready' => graph_context' = <<>>
      /\ \A f \in {"absent", "readable", "rewritten", "unreadable"} :
           build_knowledge_graph(f, graph_ready, graph_context).graph_ready = graph_ready
    ]_vars

\* C21 witness: the file was read, then removed, and a later run of the page
\* (the one that drew the Check button) left the session ready with the text
\* read before.
C21_Witness ==
  /\ graph_ready /\ graph_context = GraphFileText
  /\ context_file = "absent"
  /\ check_shown /\ run = "done"

\* C22: whenever no process_simple run is in progress, every node key of
\* config.PARTITION is a node of the current config.G.
C22_PartitionWithinGraph ==
  (\A s \in Sessions : sessions[s].pc \in {"idle", "returned"}) =>
    DOMAIN PARTITION \subseteq (IF G = NoneValue THEN {} ELSE G.nodes)

\* C23: export_cfo_data returns the empty list without calling the exporter
\* when config.G is None or has no nodes, and otherwise returns exactly the
\* exported paths that are non-empty and exist on disk (none when the
\* exporter raises).
C23_ExistingPathsReturned ==
  [][ \A s \in Sessions :
        (sessions[s].pc = "idle" /\ sessions'[s].pc = "returned"
           /\ sessions'[s].result.op = "export_cfo_data") =>
          LET r == sessions'[s].result
              kept == SelectSeq(r.out.paths, LAMBDA f : f.path # "" /\ f.exists)
          IN /\ r.called <=> (G # NoneValue /\ G.nodes # {})
             /\ IF ~r.called \/ r.out.raised THEN r.value = <<>>
                ELSE r.value = [i \in 1..Len(kept) |-> kept[i].path] ]_vars

-----------------------------------------------------------------------------
(* The bundle and its parts. *)

\* C24: in every bundle load_cfo_analytics_data returns, contract_csv is
\* None or a table with rows; cfo_insights is non-empty only with a table;
\* risk_assessment and executive_summary are non-empty only with insights;
\* in demo mode and for an unknown mode all three are empty.
C24_BundleShape ==
  (last.op = "load_cfo_analytics_data" /\ ~last.result.raised) =>
    LET b == last.result.value
        no_aggregates == DOMAIN b.risk_assessment = {} /\ DOMAIN b.executive_summary = {}
    IN /\ b.has_csv
       /\ IF b.is_none THEN b.rows = <<>> ELSE b.rows # <<>> /\ b.columns # {}
       /\ b.cfo_insights # <<>> => ~b.is_none
       /\ b.cfo_insights = <<>> => no_aggregates
       /\ last.mode \in {"demo", "other"} => b.cfo_insights = <<>> /\ no_aggregates

\* C24 witness: a bundle with a table, insights and both aggregates.
C24_Witness ==
  /\ last.op = "load_cfo_analytics_data" /\ ~last.result.raised
  /\ last.mode = "live"
  /\ ~last.result.value.is_none
  /\ last.result.value.cfo_insights # <<>>
  /\ DOMAIN last.result.value.risk_assessment # {}
  /\ DOMAIN last.result.value.executive_summary # {}

\* C25: the table load_unified_contracts returns is the uploaded table when
\* uploaded_contracts.csv exists and can be parsed, the empty table when it
\* exists and cannot be parsed, and the dummy table (or the empty table when
\* that file is missing or cannot be parsed) only when it does not exist.
C25_UploadedPreferred ==
  (last.op = "load_cfo_analytics_data" /\ last.mode = "unified" /\ last.result.ran) =>
    last.result.table =
      IF files.uploaded.state = "ok"
        THEN [columns |-> files.uploaded.columns, rows |-> files.uploaded.rows]
      ELSE IF files.uploaded.state = "absent" /\ files.dummy.state = "ok"
        THEN [columns |-> files.dummy.columns, rows |-> files.dummy.rows]
      ELSE [columns |-> {}, rows |-> <<>>]

\* The position of the first insight of the list with the given dimension.
FirstAt(insights, dimension) ==
  CHOOSE i \in 1..Len(insights) :
    /\ insights[i].dimension = dimension
    /\ \A j \in 1..(i - 1) : insights[j].dimension # dimension

\* The places (group, position) where expanders show an insight.
PlacesOf(groups, insight) ==
  { kj \in UNION { {<<k, j>> : j \in 1..Len(groups[k].insights)} : k \in 1..Len(groups) } :
      groups[kj[1]].insights[kj[2]] = insight }

RECURSIVE GroupSizes(_)
GroupSizes(groups) ==
  IF groups = <<>> THEN 0 ELSE Len(Head(groups).insights) + GroupSizes(Tail(groups))

\* C26: over insights that all carry a dimension, executive.create_page
\* draws one expander per dimension, in the order the dimensions first
\* appear; every insight is shown once, under its own dimension; the sizes
\* of the groups add up to the number of insights; and inside a group the
\* insights keep the order of the list.
C26_PartitionByDimension ==
  LET ins == analytics_data.cfo_insights
      g == last.result.value
  IN (/\ last.op = "executive.create_page"
      /\ ins # <<>>
      /\ \A i \in 1..Len(ins) : "dimension" \in DOMAIN ins[i])
     => /\ ~last.result.raised
        /\ GroupSizes(g) = Len(ins)
        /\ \A i \in 1..Len(ins) :
             /\ Cardinality(PlacesOf(g, ins[i])) = 1
             /\ \A kj \in PlacesOf(g, ins[i]) : g[kj[1]].dimension = ins[i].dimension
        /\ \A k1, k2 \in 1..Len(g) :
             k1 < k2 => FirstAt(ins, g[k1].dimension) < FirstAt(ins, g[k2].dimension)
        /\ \A k \in 1..Len(g) : \A j1, j2 \in 1..Len(g[k].insights) :
             j1 < j2 => \E i1, i2 \in 1..Len(ins) :
                          /\ i1 < i2
                          /\ ins[i1] = g[k].insights[j1]
                          /\ ins[i2] = g[k].insights[j2]

C26_Witness ==
  /\ last.op = "executive.create_page"
  /\ Len(analytics_data.cfo_insights) = 3
  /\ ~last.result.raised
  /\ Len(last.result.value) = 2
  /\ last.result.value[1].dimension = "Risk"
  /\ Len(last.result.value[1].insights) = 2
  /\ last.result.value[2].dimension = "Cost"

====
